---- MODULE Spec2Model ----
(***************************************************************************)
(* A model of the numeric-claim pipeline of extractor.py (sentence         *)
(* splitting, regex extraction, noise filtering, deduplication, scoring    *)
(* and bucketed KPI selection) and of the steps of app.py that label,      *)
(* replace and render the claims of spec.content.numbers.                  *)
(*                                                                         *)
(* Text is a sequence of characters.  A character is a one-element string  *)
(* for ASCII ("3", "%", "p", " ") and a capitalised romanisation for a     *)
(* Hangul syllable ("Myeong" for the count unit, "Gae" "Wol" for the       *)
(* month unit, "Da" for the sentence-final ending, ...).                   *)
(***************************************************************************)
EXTENDS Integers, Sequences, FiniteSets, TLC

VARIABLES
    text,        \* extract_numbers_with_context: the article text
    text_none,   \* extract_numbers_with_context: the argument text is None
    nfrags,      \* number of fragments the text was built from
    max_items,   \* extract_numbers_with_context: the cap argument
    discovered,  \* extract_numbers_with_context: results before line 160
    results,     \* extract_numbers_with_context: the returned list
    called,      \* extract_numbers_with_context has returned
    xraised,     \* extract_numbers_with_context ended with an exception
    nums,        \* choose_kpis: the claim list argument
    k,           \* choose_kpis: the size argument
    picked,      \* choose_kpis: the returned list
    kcalled,     \* choose_kpis has returned
    nums_after,  \* choose_kpis: the caller's list nums after the call
    nraw,        \* _is_noise_number: the raw argument
    nctx,        \* _is_noise_number: the context argument
    nres,        \* _is_noise_number: the returned boolean
    ncalled,     \* _is_noise_number has returned
    pnums,       \* postprocess_numbers: the argument nums
    ptitle,      \* postprocess_numbers: the argument title
    pout,        \* postprocess_numbers: the returned list
    pcalled,     \* postprocess_numbers has returned
    sclaim,      \* the scoring functions: the claim n
    stitle,      \* the title of the article the claim was taken from
    kscore,      \* _kpi_score(n), in sixtieths
    pscore,      \* score(n) of postprocess_numbers(nums, title), in sixtieths
    escore,      \* score(n) as extract_numbers_with_context ranks by it
    scored,      \* the scores have been computed
    targ,        \* classify_trend: the argument value_any
    ttrend,      \* classify_trend: the returned trend
    tcalled,     \* classify_trend has returned
    atext,       \* the text of the article the session works on
    extracted10, \* extract_numbers_with_context(text, max_items=10) of it
    extracted20, \* extract_numbers_with_context(text, max_items=20) of it
    article_text, \* st.session_state["article_text"]
    spec_numbers, \* st.session_state.spec["content"]["numbers"]
    rm_numbers,  \* the field numbers of the last render model
    public,      \* the session runs run_public_mode, not run_desk_mode
    dirty,       \* st.session_state.dirty
    headline,    \* st.session_state.spec["content"]["headline"]
    svg_exists,  \* st.session_state.svg is not the empty text
    svg_of,      \* the numbers and the headline st.session_state.svg shows
    last_op,     \* the handler that ran last
    prior,       \* the claim list that handler worked on, as it was
    missing,     \* the positions of it the oracle's reply had no entry for
    raised,      \* the handler ended with an exception
    nops,        \* the number of handlers run
    rnumbers,    \* refine_numbers_with_openai: the argument numbers
    rclient,     \* get_openai_client() returns a client
    rtext,       \* refine_numbers_with_openai: the argument text
    rdata,       \* the reply of the oracle to the call of line 376
    rret,        \* refine_numbers_with_openai: the returned list
    rraised,     \* refine_numbers_with_openai ended with an exception
    rcalled,     \* refine_numbers_with_openai has run
    now,         \* time.time(), in seconds
    last_fetch_ts, \* st.session_state.last_fetch_ts
    req_url,     \* the last fetch request: normalize_url of the text typed
    req_prior_ts, \* last_fetch_ts as the request found it
    req_outcome, \* how the request ended
    accepted,    \* the requests that passed guard_rate_limit, oldest first
    frames       \* the local variables of the invocations in progress

vars == <<text, text_none, nfrags, max_items, discovered, results, called, xraised,
          nums, k, picked, kcalled, nums_after, nraw, nctx, nres, ncalled,
          pnums, ptitle, pout, pcalled,
          sclaim, stitle, kscore, pscore, escore, scored,
          targ, ttrend, tcalled,
          atext, extracted10, extracted20, article_text, spec_numbers, rm_numbers,
          public, dirty, headline, svg_exists, svg_of,
          last_op, prior, missing, raised, nops,
          rnumbers, rclient, rtext, rdata, rret, rraised, rcalled,
          now, last_fetch_ts, req_url, req_prior_ts, req_outcome, accepted,
          frames>>
extractVars == <<text, text_none, nfrags, max_items, discovered, results, called, xraised>>
kpiVars == <<nums, k, picked, kcalled, nums_after>>
noiseVars == <<nraw, nctx, nres, ncalled>>
postVars == <<pnums, ptitle, pout, pcalled>>
\* the variables of the functions of app.py and of the direct calls
scoreVars == <<sclaim, stitle, kscore, pscore, escore, scored>>
trendVars == <<targ, ttrend, tcalled>>
appVars == <<atext, extracted10, extracted20, article_text, spec_numbers, rm_numbers,
             public, dirty, headline, svg_exists, svg_of,
             last_op, prior, missing, raised, nops>>
refineVars == <<rnumbers, rclient, rtext, rdata, rret, rraised, rcalled>>
guardVars == <<now, last_fetch_ts, req_url, req_prior_ts, req_outcome, accepted>>
\* the variables of the fetch guard and of the interleaved invocations
lateVars == <<guardVars, frames>>
restVars == <<postVars, scoreVars, trendVars, appVars,
                   refineVars, lateVars>>

(***************************************************************************)
(* Bounds of the model.                                                    *)
(***************************************************************************)
MaxFrags == 3
MaxItems == 2
MaxClaims == 4
MaxK == 4
MaxPost == 4
MaxReply == 2
MaxOps == 3
MaxSort == 3
MaxScan == 2
MaxClock == 9
MaxCalls == 2

(***************************************************************************)
(* Characters and the classes the regular expressions use.                 *)
(***************************************************************************)
Digits == {"0", "1", "2", "3", "4", "5", "6", "7", "8", "9"}

Hangul == {"Myeong", "Geon", "Gae", "Nyeon", "Wol", "Il", "Si", "Gan", "Bae",
           "Jo", "Eok", "Man", "Won", "Da", "Yo", "Ham", "Doem",
           "Hoe", "Cha", "Gi", "Je", "Yi", "Ga",
           "Sang", "Seung", "Jeung", "Neul", "Ha", "Rak", "Gam", "So", "Jul"}

Latin == {"p", "h", "t", "w", "n", "e", "s", "V", "i"}

\* \d
IsDigit(c) == c \in Digits

\* \s
IsSpace(c) == c = " "

\* \w of a str pattern: Unicode letters and digits (Hangul syllables included)
IsWord(c) == c \in (Digits \cup Hangul \cup Latin)

DigitVal(c) ==
    CASE c = "0" -> 0 [] c = "1" -> 1 [] c = "2" -> 2 [] c = "3" -> 3
      [] c = "4" -> 4 [] c = "5" -> 5 [] c = "6" -> 6 [] c = "7" -> 7
      [] c = "8" -> 8 [] c = "9" -> 9

DigitChar(n) ==
    CASE n = 0 -> "0" [] n = 1 -> "1" [] n = 2 -> "2" [] n = 3 -> "3"
      [] n = 4 -> "4" [] n = 5 -> "5" [] n = 6 -> "6" [] n = 7 -> "7"
      [] n = 8 -> "8" [] n = 9 -> "9"

(***************************************************************************)
(* String helpers (Python str operations on character sequences).          *)
(***************************************************************************)
Min(a, b) == IF a <= b THEN a ELSE b

\* s[i:] with a 1-based i
From(s, i) == SubSeq(s, i, Len(s))

\* t occurs in s starting at position i
StartsWithAt(s, i, t) ==
    /\ i >= 1
    /\ i + Len(t) - 1 <= Len(s)
    /\ SubSeq(s, i, i + Len(t) - 1) = t

\* t in s
Contains(s, t) == \E i \in 1..(Len(s) + 1) : StartsWithAt(s, i, t)

RECURSIVE LStrip(_)
LStrip(s) == IF s # <<>> /\ IsSpace(Head(s)) THEN LStrip(Tail(s)) ELSE s

RECURSIVE RStrip(_)
RStrip(s) ==
    IF s # <<>> /\ IsSpace(s[Len(s)]) THEN RStrip(SubSeq(s, 1, Len(s) - 1)) ELSE s

\* str.strip()
Strip(s) == RStrip(LStrip(s))

\* the number of characters from position i on that satisfy the class
RECURSIVE DigitRun(_, _)
DigitRun(s, i) == IF i <= Len(s) /\ IsDigit(s[i]) THEN 1 + DigitRun(s, i + 1) ELSE 0

RECURSIVE SpaceRun(_, _)
SpaceRun(s, i) == IF i <= Len(s) /\ IsSpace(s[i]) THEN 1 + SpaceRun(s, i + 1) ELSE 0

\* the regex anchor \b at the gap before position i (1..Len(s)+1)
WordBoundary(s, i) ==
    LET before == i > 1 /\ IsWord(s[i - 1])
        after == i <= Len(s) /\ IsWord(s[i])
    IN  before # after

(***************************************************************************)
(* Numbers.  A value is the decimal the code parsed, kept exactly: its     *)
(* integer part ip, its fraction digits fr without trailing zeros, and     *)
(* whether Python holds it as a float (TRUE) or an int (FALSE).            *)
(***************************************************************************)
RECURSIVE RemoveCommas(_)
RemoveCommas(s) ==
    IF s = <<>> THEN <<>>
    ELSE IF Head(s) = "," THEN RemoveCommas(Tail(s))
    ELSE <<Head(s)>> \o RemoveCommas(Tail(s))

RECURSIVE DigitsToNat(_)
DigitsToNat(s) ==
    IF s = <<>> THEN 0 ELSE 10 * DigitsToNat(SubSeq(s, 1, Len(s) - 1)) + DigitVal(s[Len(s)])

RECURSIVE NatToStr(_)
NatToStr(n) == IF n < 10 THEN <<DigitChar(n)>> ELSE NatToStr(n \div 10) \o <<DigitChar(n % 10)>>

RECURSIVE StripTrailingZeros(_)
StripTrailingZeros(s) ==
    IF s # <<>> /\ s[Len(s)] = "0" THEN StripTrailingZeros(SubSeq(s, 1, Len(s) - 1)) ELSE s

\* float(value_str.replace(",", "")): the parsed decimal, as a float
_normalize_number(value_str) ==
    LET plain == RemoveCommas(value_str)
        n == DigitRun(plain, 1)
    IN  [ip |-> DigitsToNat(SubSeq(plain, 1, n)),
         fr |-> StripTrailingZeros(From(plain, n + 2)),
         float |-> TRUE]

\* val.is_integer()
IsInteger(v) == v.fr = <<>>

\* int(val) if val.is_integer() else val
IntIfInteger(v) == IF IsInteger(v) THEN [v EXCEPT !.float = FALSE] ELSE v

\* str(value): "3" for the int 3, "3.0" for the float 3.0, "3.5" for 3.5
PyStr(v) ==
    NatToStr(v.ip) \o
    (IF v.float THEN <<".">> \o (IF v.fr = <<>> THEN <<"0">> ELSE v.fr) ELSE <<>>)

\* Python's == on numbers: 3 == 3.0
NumEq(v, w) == v.ip = w.ip /\ v.fr = w.fr

\* float(value) <= 2
AtMostTwo(v) == v.ip < 2 \/ (v.ip = 2 /\ v.fr = <<>>)

(***************************************************************************)
(* _split_sentences_ko                                                     *)
(***************************************************************************)
\* re.sub(r"\s+", " ", text)
RECURSIVE CollapseSpaces(_)
CollapseSpaces(s) ==
    IF s = <<>> THEN <<>>
    ELSE IF IsSpace(Head(s)) THEN <<" ">> \o CollapseSpaces(From(s, SpaceRun(s, 1) + 1))
    ELSE <<Head(s)>> \o CollapseSpaces(Tail(s))

\* the lookbehind (?<=[\.\?\!]|Da|Yo|Ham|Doem)
SentenceFinal == {".", "?", "!", "Da", "Yo", "Ham", "Doem"}

\* re.split(r"(?<=...)\s+", s): cur is the piece being collected
RECURSIVE SplitFrom(_, _, _)
SplitFrom(s, i, cur) ==
    IF i > Len(s) THEN <<cur>>
    ELSE IF IsSpace(s[i]) /\ i > 1 /\ s[i - 1] \in SentenceFinal
    THEN <<cur>> \o SplitFrom(s, i + SpaceRun(s, i), <<>>)
    ELSE SplitFrom(s, i + 1, Append(cur, s[i]))

_split_sentences_ko(t) == SplitFrom(CollapseSpaces(Strip(t)), 1, <<>>)

\* line 105: (text or ""), for a text that is a string or None
TextOrEmpty(none, t) == [raised |-> FALSE, s |-> IF none THEN <<>> ELSE t]

(***************************************************************************)
(* The extraction pattern                                                  *)
(*   (\d{1,3}(?:,\d{3})+|\d+(?:\.\d+)?)\s*(%p|%|...|p|...)                 *)
(* matched as the backtracking matcher does: the candidates for the        *)
(* numeral in priority order, the first one the rest of the pattern        *)
(* accepts.                                                                *)
(***************************************************************************)
\* the unit alternation, in the order the pattern lists it
UnitAlts ==
    << <<"%", "p">>, <<"%">>, <<"Myeong">>, <<"Geon">>, <<"Gae">>, <<"Nyeon">>,
       <<"Gae", "Wol">>, <<"Il">>, <<"Si", "Gan">>, <<"Bae">>, <<"p">>,
       <<"Jo">>, <<"Eok">>, <<"Man">>, <<"Won">> >>

SetMin(S) == CHOOSE x \in S : \A y \in S : x <= y
SetMax(S) == CHOOSE x \in S : \A y \in S : x >= y

\* the first alternative of the unit group that matches at j (0: none)
UnitAt(s, j) ==
    LET hits == {a \in 1..Len(UnitAlts) : StartsWithAt(s, j, UnitAlts[a])}
    IN  IF hits = {} THEN 0 ELSE SetMin(hits)

\* \s*(unit) at position e: the greedy \s* gives spaces back until a unit matches
TailAt(s, e) ==
    LET ok == {m \in 0..SpaceRun(s, e) : UnitAt(s, e + m) # 0}
    IN  IF ok = {} THEN [unit |-> <<>>, end |-> 0]
        ELSE LET u == UnitAlts[UnitAt(s, e + SetMax(ok))]
             IN  [unit |-> u, end |-> e + SetMax(ok) + Len(u)]

\* the number of consecutive groups ,\d{3} from position p on
RECURSIVE GroupRun(_, _)
GroupRun(s, p) ==
    IF p <= Len(s) /\ s[p] = "," /\ DigitRun(s, p + 1) >= 3
    THEN 1 + GroupRun(s, p + 4) ELSE 0

\* \d{1,3}(?:,\d{3})+ from i with n leading digits: ends, most groups first
GroupedEnds(s, i, n) ==
    IF n <= DigitRun(s, i)
    THEN LET g == GroupRun(s, i + n) IN [x \in 1..g |-> i + n + 4 * (g - x + 1)]
    ELSE <<>>

\* (?:\.\d+)? after a numeral ending before position p: longest fraction first
FractionEnds(s, p) ==
    IF p <= Len(s) /\ s[p] = "."
    THEN LET f == DigitRun(s, p + 1) IN [x \in 1..f |-> p + 1 + (f - x + 1)]
    ELSE <<>>

\* \d+(?:\.\d+)? from i: most digits first, with a fraction before without
RECURSIVE PlainEnds(_, _, _)
PlainEnds(s, i, len) ==
    IF len = 0 THEN <<>>
    ELSE FractionEnds(s, i + len) \o <<i + len>> \o PlainEnds(s, i, len - 1)

\* every end of group 1 from i, in the order the matcher tries them
NumeralEnds(s, i) ==
    GroupedEnds(s, i, 3) \o GroupedEnds(s, i, 2) \o GroupedEnds(s, i, 1)
        \o PlainEnds(s, i, DigitRun(s, i))

NoMatch == [start |-> 0, num_str |-> <<>>, unit |-> <<>>, raw |-> <<>>, end |-> 0]

\* pattern.match at position i
MatchAt(s, i) ==
    LET ends == NumeralEnds(s, i)
        ok == {x \in 1..Len(ends) : TailAt(s, ends[x]).end # 0}
    IN  IF ok = {} THEN NoMatch
        ELSE LET e == ends[SetMin(ok)]
                 t == TailAt(s, e)
             IN  [start |-> i,
                  num_str |-> SubSeq(s, i, e - 1),     \* m.group(1)
                  unit |-> t.unit,                      \* m.group(2)
                  raw |-> SubSeq(s, i, t.end - 1),      \* m.group(0)
                  end |-> t.end]

\* pattern.finditer(s) from position pos: leftmost matches, not overlapping
RECURSIVE FindIter(_, _)
FindIter(s, pos) ==
    IF pos > Len(s) THEN <<>>
    ELSE LET m == MatchAt(s, pos)
         IN  IF m.start = 0 THEN FindIter(s, pos + 1)
             ELSE <<m>> \o FindIter(s, m.end)

(***************************************************************************)
(* _is_noise_number.  re.search succeeds when some start position and some *)
(* choice of the bounded repetitions matches.                              *)
(***************************************************************************)
\* the character at position i, "" outside the string
CharAt(s, i) == IF i >= 1 /\ i <= Len(s) THEN s[i] ELSE ""

UrlMarkers ==
    { <<"n", "e", "w", "s", "V", "i", "e", "w">>, <<"h", "t", "t", "p">>,
      <<"w", "w", "w", ".">> }

\* "newsView" in ctx or "http" in ctx or "www." in ctx
HasUrlMarker(ctx) == \E u \in UrlMarkers : Contains(ctx, u)

DateSeps == {"-", "/", "."}

\* \b20\d{2}[-/\.]\d{1,2}[-/\.]\d{1,2}\b at position i
DateAt(s, i) ==
    /\ WordBoundary(s, i)
    /\ StartsWithAt(s, i, <<"2", "0">>)
    /\ DigitRun(s, i + 2) >= 2
    /\ CharAt(s, i + 4) \in DateSeps
    /\ \E a \in 1..2 :
          /\ DigitRun(s, i + 5) >= a
          /\ CharAt(s, i + 5 + a) \in DateSeps
          /\ \E b \in 1..2 :
                /\ DigitRun(s, i + 6 + a) >= b
                /\ WordBoundary(s, i + 6 + a + b)

HasDate(ctx) == \E i \in 1..Len(ctx) : DateAt(ctx, i)

\* \b\d{1,2}:\d{2}(:\d{2})?\b at position i
ClockAt(s, i) ==
    /\ WordBoundary(s, i)
    /\ \E a \in 1..2 :
          /\ DigitRun(s, i) >= a
          /\ CharAt(s, i + a) = ":"
          /\ DigitRun(s, i + a + 1) >= 2
          /\ \/ WordBoundary(s, i + a + 3)
             \/ /\ CharAt(s, i + a + 3) = ":"
                /\ DigitRun(s, i + a + 4) >= 2
                /\ WordBoundary(s, i + a + 6)

HasClock(ctx) == \E i \in 1..Len(ctx) : ClockAt(ctx, i)

\* \b20\d{6,}\b at position i
StampAt(s, i) ==
    /\ WordBoundary(s, i)
    /\ StartsWithAt(s, i, <<"2", "0">>)
    /\ \E n \in 6..DigitRun(s, i + 2) : WordBoundary(s, i + 2 + n)

HasStamp(raw) == \E i \in 1..Len(raw) : StampAt(raw, i)

OrdinalMarks == {"Hoe", "Cha", "Gi"}

\* \d+\s*(Hoe|Cha|Gi) at position i
CountedAt(s, i) ==
    \E n \in 1..DigitRun(s, i) :
        \E m \in 0..SpaceRun(s, i + n) : CharAt(s, i + n + m) \in OrdinalMarks

\* Je\s*\d+\s*(Hoe|Cha|Gi) at position i
NumberedAt(s, i) ==
    /\ CharAt(s, i) = "Je"
    /\ \E m \in 0..SpaceRun(s, i + 1) : CountedAt(s, i + 1 + m)

HasOrdinal(ctx) == \E i \in 1..Len(ctx) : NumberedAt(ctx, i) \/ CountedAt(ctx, i)

_is_noise_number(raw, context) ==
    LET r == Strip(raw)
        ctx == Strip(context)
    IN  \/ HasUrlMarker(ctx)
        \/ HasDate(ctx)
        \/ HasClock(ctx)
        \/ HasStamp(r)
        \/ HasOrdinal(ctx)

(***************************************************************************)
(* postprocess_numbers.  Scores are kept exactly, in sixtieths.  The code   *)
(* adds min(len(ctx), 180) / 60 to a sum of integers in binary floating    *)
(* point: two scores that differ as rationals differ by at least 1/60 and  *)
(* compare the same way as floats, while two scores that are equal as      *)
(* rationals but summed along different branches (say 35 - 10 + 5 and 30)  *)
(* may differ in the last bit.  The inputs below hold no such pair, and no *)
(* formula below rests on the order of one.                                *)
(***************************************************************************)
CtxMax == 180
ScoreUnit == 60
RatioBonus == 50
CountBonus == 35
MoneyBonus == 30
TimeBonus == 20
TitleBonus == 8
TitlePrefix == 12
SmallPenalty == 10
LabelBonus == 5

CountUnits == { <<"Myeong">>, <<"Geon">>, <<"Gae">> }
MoneyUnits == { <<"Jo">>, <<"Eok">>, <<"Man">>, <<"Won">> }
TimeUnits == { <<"Nyeon">>, <<"Gae", "Wol">>, <<"Il">>, <<"Si", "Gan">> }

\* score(n) with the ratio bonus for the unit % alone
PostScoreExactPct(n, title) ==
    LET head == SubSeq(title, 1, Min(Len(title), TitlePrefix))
    IN  (IF n.unit = <<"%">> THEN ScoreUnit * RatioBonus ELSE 0)
      + (IF n.unit \in CountUnits THEN ScoreUnit * CountBonus ELSE 0)
      + (IF n.unit \in MoneyUnits THEN ScoreUnit * MoneyBonus ELSE 0)
      + (IF n.unit \in TimeUnits THEN ScoreUnit * TimeBonus ELSE 0)
      + (IF head # <<>> /\ Contains(n.context, head) THEN ScoreUnit * TitleBonus ELSE 0)
      + Min(Len(n.context), CtxMax)
      - (IF AtMostTwo(n.value) /\ ~Contains(n.unit, <<"%">>)
         THEN ScoreUnit * SmallPenalty ELSE 0)

\* the nested function score(n) of postprocess_numbers, times 60
PostScore60(n, title) ==
    LET head == SubSeq(title, 1, Min(Len(title), TitlePrefix))
    IN  (IF Contains(n.unit, <<"%">>) THEN ScoreUnit * RatioBonus ELSE 0)
      + (IF n.unit \in CountUnits THEN ScoreUnit * CountBonus ELSE 0)
      + (IF n.unit \in MoneyUnits THEN ScoreUnit * MoneyBonus ELSE 0)
      + (IF n.unit \in TimeUnits THEN ScoreUnit * TimeBonus ELSE 0)
      + (IF head # <<>> /\ Contains(n.context, head) THEN ScoreUnit * TitleBonus ELSE 0)
      + Min(Len(n.context), CtxMax)
      - (IF AtMostTwo(n.value) /\ ~Contains(n.unit, <<"%">>)
         THEN ScoreUnit * SmallPenalty ELSE 0)

\* a sort that is not stable: an item goes before the items of equal key
RECURSIVE InsertDescBefore(_, _)
InsertDescBefore(sorted, x) ==
    IF sorted = <<>> THEN <<x>>
    ELSE IF Head(sorted).key > x.key
         THEN <<Head(sorted)>> \o InsertDescBefore(Tail(sorted), x)
    ELSE <<x>> \o sorted

\* list.sort(key=..., reverse=True) on a list of [key, item]: stable, so an
\* item goes behind every item already placed whose key is not smaller
RECURSIVE InsertDesc(_, _)
InsertDesc(sorted, x) ==
    IF sorted = <<>> THEN <<x>>
    ELSE IF Head(sorted).key >= x.key THEN <<Head(sorted)>> \o InsertDesc(Tail(sorted), x)
    ELSE <<x>> \o sorted

RECURSIVE SortDescFrom(_, _, _)
SortDescFrom(keyed, i, sorted) ==
    IF i > Len(keyed) THEN sorted
    ELSE SortDescFrom(keyed, i + 1, InsertDesc(sorted, keyed[i]))

StableSortDesc(keyed) == SortDescFrom(keyed, 1, <<>>)

\* line 197: key = (str(n.get("value")), n.get("unit", ""), raw)
PostKey(n) == <<PyStr(n.value), n.unit, n.raw>>

\* the first loop without the test of line 198: noise goes, repeated keys stay
RECURSIVE DenoiseFrom(_, _, _, _)
DenoiseFrom(ns, i, cleaned, seen) ==
    IF i > Len(ns) THEN cleaned
    ELSE IF _is_noise_number(ns[i].raw, ns[i].context) THEN DenoiseFrom(ns, i + 1, cleaned, seen)
    ELSE DenoiseFrom(ns, i + 1, Append(cleaned, ns[i]), seen)

\* lines 189-202: drop noise, keep the first claim of each key
RECURSIVE CleanFrom(_, _, _, _)
CleanFrom(ns, i, cleaned, seen) ==
    IF i > Len(ns) THEN cleaned
    ELSE IF _is_noise_number(ns[i].raw, ns[i].context) THEN CleanFrom(ns, i + 1, cleaned, seen)
    ELSE IF PostKey(ns[i]) \in seen THEN CleanFrom(ns, i + 1, cleaned, seen)
    ELSE CleanFrom(ns, i + 1, Append(cleaned, ns[i]), seen \cup {PostKey(ns[i])})

\* the first loop without the test of line 194: duplicates go, noise stays
RECURSIVE DedupFrom(_, _, _, _)
DedupFrom(ns, i, cleaned, seen) ==
    IF i > Len(ns) THEN cleaned
    ELSE IF PostKey(ns[i]) \in seen THEN DedupFrom(ns, i + 1, cleaned, seen)
    ELSE DedupFrom(ns, i + 1, Append(cleaned, ns[i]), seen \cup {PostKey(ns[i])})

CleanedKeepNoise(ns) == DedupFrom(ns, 1, <<>>, {})

Cleaned(ns) == CleanFrom(ns, 1, <<>>, {})

\* postprocess_numbers without the sort of line 232
SortByScoreSkipped(cleaned, title) == cleaned

\* line 232: cleaned.sort(key=score, reverse=True)
SortByScore(cleaned, title) ==
    LET keyed == [i \in 1..Len(cleaned) |->
                    [key |-> PostScore60(cleaned[i], title), item |-> cleaned[i]]]
        sorted == StableSortDesc(keyed)
    IN  [i \in 1..Len(sorted) |-> sorted[i].item]

postprocess_numbers(ns, title) == SortByScore(Cleaned(ns), title)

(***************************************************************************)
(* extract_numbers_with_context                                            *)
(***************************************************************************)
\* lines 144-152: the claim built from a match in sentence sent
ClaimOf(m, sent) ==
    [value |-> IntIfInteger(_normalize_number(m.num_str)),
     unit |-> m.unit,
     raw |-> m.raw,
     context |-> SubSeq(sent, 1, Min(Len(sent), CtxMax)),
     label |-> <<>>,
     note |-> <<>>,
     trend |-> "neutral"]

\* the inner loop with the noise test of line 194 made before line 137: a
\* match in a noise sentence is passed over and its pair is not seen
RECURSIVE ScanSentenceSeenLate(_, _, _, _, _, _)
ScanSentenceSeenLate(sent, ms, i, res, seen, cap) ==
    IF i > Len(ms) THEN [results |-> res, seen |-> seen]
    ELSE LET key == <<ms[i].num_str, ms[i].unit>>
             n == [value |-> IntIfInteger(_normalize_number(ms[i].num_str)),
                   unit |-> ms[i].unit, raw |-> ms[i].raw,
                   context |-> SubSeq(sent, 1, Min(Len(sent), CtxMax)),
                   label |-> <<>>, note |-> <<>>, trend |-> "neutral"]
         IN  IF key \in seen \/ _is_noise_number(n.raw, n.context)
             THEN ScanSentenceSeenLate(sent, ms, i + 1, res, seen, cap)
             ELSE LET res2 == Append(res, n)
                  IN  IF Len(res2) >= cap
                      THEN [results |-> res2, seen |-> seen \cup {key}]
                      ELSE ScanSentenceSeenLate(sent, ms, i + 1, res2, seen \cup {key}, cap)

\* lines 128-155: the inner loop over the matches ms of one sentence, from
\* match i on; it ends at the last match or at the break of line 155
RECURSIVE ScanSentence(_, _, _, _, _, _)
ScanSentence(sent, ms, i, res, seen, cap) ==
    IF i > Len(ms) THEN [results |-> res, seen |-> seen]
    ELSE LET key == <<ms[i].num_str, ms[i].unit>>
         IN  IF key \in seen THEN ScanSentence(sent, ms, i + 1, res, seen, cap)
             ELSE LET res2 == Append(res, ClaimOf(ms[i], sent))
                  IN  IF Len(res2) >= cap
                      THEN [results |-> res2, seen |-> seen \cup {key}]
                      ELSE ScanSentence(sent, ms, i + 1, res2, seen \cup {key}, cap)

\* lines 127-158: the outer loop over the sentences, from sentence si on; the
\* test of line 157 runs after every sentence, matched or not
RECURSIVE ScanFrom(_, _, _, _, _)
ScanFrom(sentences, si, res, seen, cap) ==
    IF si > Len(sentences) THEN res
    ELSE LET r == ScanSentence(sentences[si], FindIter(sentences[si], 1), 1, res, seen, cap)
         IN  IF Len(r.results) >= cap THEN r.results
             ELSE ScanFrom(sentences, si + 1, r.results, r.seen, cap)

\* the list results as it stands at line 159, before postprocessing
Discovered(t, cap) == ScanFrom(_split_sentences_ko(t), 1, <<>>, {}, cap)

\* line 160: postprocess_numbers(results) passes no title, so the sort of
\* line 232 ranks with title = ""
ExtractScore60(n) == PostScore60(n, <<>>)

\* the function as a whole; the action Extract takes it in its two steps
extract_numbers_with_context(t, cap) == postprocess_numbers(Discovered(t, cap), <<>>)

(***************************************************************************)
(* choose_kpis                                                             *)
(***************************************************************************)
_kpi_bucket(unit) ==
    LET u == Strip(unit)
    IN  IF Contains(u, <<"%">>) THEN "ratio"
        ELSE IF u \in CountUnits THEN "count"
        ELSE IF u \in MoneyUnits \/ Contains(u, <<"Won">>) THEN "money"
        ELSE IF u \in TimeUnits THEN "time"
        ELSE "other"

\* _kpi_score with the label counted as it stands, blank or not
_kpi_score_untrimmed(n) ==
      (IF Contains(n.unit, <<"%">>) THEN ScoreUnit * RatioBonus ELSE 0)
    + (IF n.unit \in CountUnits THEN ScoreUnit * CountBonus ELSE 0)
    + (IF n.unit \in MoneyUnits \/ Contains(n.unit, <<"Won">>)
       THEN ScoreUnit * MoneyBonus ELSE 0)
    + (IF n.unit \in TimeUnits THEN ScoreUnit * TimeBonus ELSE 0)
    + Min(Len(n.context), CtxMax)
    - (IF AtMostTwo(n.value) /\ ~Contains(n.unit, <<"%">>)
       THEN ScoreUnit * SmallPenalty ELSE 0)
    + (IF n.label # <<>> THEN ScoreUnit * LabelBonus ELSE 0)

\* _kpi_score(n), times 60
_kpi_score(n) ==
      (IF Contains(n.unit, <<"%">>) THEN ScoreUnit * RatioBonus ELSE 0)
    + (IF n.unit \in CountUnits THEN ScoreUnit * CountBonus ELSE 0)
    + (IF n.unit \in MoneyUnits \/ Contains(n.unit, <<"Won">>)
       THEN ScoreUnit * MoneyBonus ELSE 0)
    + (IF n.unit \in TimeUnits THEN ScoreUnit * TimeBonus ELSE 0)
    + Min(Len(n.context), CtxMax)
    - (IF AtMostTwo(n.value) /\ ~Contains(n.unit, <<"%">>)
       THEN ScoreUnit * SmallPenalty ELSE 0)
    + (IF Strip(n.label) # <<>> THEN ScoreUnit * LabelBonus ELSE 0)

\* lines 302-303: nn = dict(n); nn["_score"] = _kpi_score(nn)
WithScore(n) ==
    [f \in DOMAIN n \cup {"_score"} |-> IF f = "_score" THEN _kpi_score(n) ELSE n[f]]

\* line 343: p.pop("_score", None)
PopScore(p) == [f \in DOMAIN p \ {"_score"} |-> p[f]]

\* lines 300-305: the scored copies, sorted by descending score
Candidates(ns) ==
    LET keyed == [i \in 1..Len(ns) |-> [key |-> _kpi_score(ns[i]), item |-> WithScore(ns[i])]]
        sorted == StableSortDesc(keyed)
    IN  [i \in 1..Len(sorted) |-> sorted[i].item]

\* lines 307-309: buckets[name]
BucketOf(cands, name) == SelectSeq(cands, LAMBDA n : _kpi_bucket(n.unit) = name)

\* lines 318, 337: key = (str(n.get("value")), n.get("unit", ""))
KpiKey(n) == <<PyStr(n.value), n.unit>>

\* lines 319, 338: any(... == key for p in picked)
InPicked(pk, n) == \E i \in 1..Len(pk) : KpiKey(pk[i]) = KpiKey(n)

\* line 322: sum(1 for p in picked if _kpi_bucket(p.get("unit", "")) == bucket_name)
CountIn(pk, name) == Cardinality({i \in 1..Len(pk) : _kpi_bucket(pk[i].unit) = name})

\* lines 315-323: the loop of take over buckets[bucket_name], from item i on
RECURSIVE TakeFrom(_, _, _, _, _, _)
TakeFrom(bucket, i, name, limit, pk, kk) ==
    IF i > Len(bucket) THEN pk
    ELSE IF Len(pk) >= kk THEN pk
    ELSE IF InPicked(pk, bucket[i]) THEN TakeFrom(bucket, i + 1, name, limit, pk, kk)
    ELSE LET pk2 == Append(pk, bucket[i])
         IN  IF CountIn(pk2, name) >= limit THEN pk2
             ELSE TakeFrom(bucket, i + 1, name, limit, pk2, kk)

take(cands, name, limit, pk, kk) == TakeFrom(BucketOf(cands, name), 1, name, limit, pk, kk)

\* the first pass with count and ratio in each other's place
BucketOrderSwapped == <<"count", "ratio", "money", "time">>

\* lines 325-328: the buckets in the order their first claims are taken
BucketOrder == <<"ratio", "count", "money", "time">>

RECURSIVE TakeEach(_, _, _, _)
TakeEach(cands, i, pk, kk) ==
    IF i > Len(BucketOrder) THEN pk
    ELSE TakeEach(cands, i + 1, take(cands, BucketOrder[i], 1, pk, kk), kk)

\* lines 325-328
FirstPass(cands, kk) == TakeEach(cands, 1, <<>>, kk)

\* the second slot given to the count bucket instead of the ratio bucket
SecondTakeCount(cands, pk, kk) ==
    IF Len(pk) < kk THEN take(cands, "count", 2, pk, kk) ELSE pk

\* lines 330-331
SecondRatio(cands, pk, kk) ==
    IF Len(pk) < kk THEN take(cands, "ratio", 2, pk, kk) ELSE pk

\* lines 334-340: the fill loop over candidates, from item i on
RECURSIVE FillFrom(_, _, _, _)
FillFrom(cands, i, pk, kk) ==
    IF i > Len(cands) THEN pk
    ELSE IF Len(pk) >= kk THEN pk
    ELSE IF InPicked(pk, cands[i]) THEN FillFrom(cands, i + 1, pk, kk)
    ELSE FillFrom(cands, i + 1, Append(pk, cands[i]), kk)

\* choose_kpis without the fill loop of lines 333-340
FillRestSkipped(cands, pk, kk) == pk

\* lines 333-340
FillRest(cands, pk, kk) == IF Len(pk) < kk THEN FillFrom(cands, 1, pk, kk) ELSE pk

\* picked[:k] for k >= 0
Slice(pk, kk) == SubSeq(pk, 1, Min(Len(pk), kk))

\* lines 311-340: picked after the three steps
PickAll(cands, kk) == FillRest(cands, SecondRatio(cands, FirstPass(cands, kk), kk), kk)

\* lines 342-344
Returned(pk, kk) == Slice([i \in 1..Len(pk) |-> PopScore(pk[i])], kk)

\* choose_kpis with the argument k ignored: every candidate may be picked
choose_kpis_uncapped(ns, kk) ==
    IF ns = <<>> THEN <<>>
    ELSE Returned(PickAll(Candidates(ns), Len(ns)), Len(ns))

choose_kpis(ns, kk) ==
    IF ns = <<>> THEN <<>>
    ELSE Returned(PickAll(Candidates(ns), kk), kk)

\* nn = n in place of line 302: the candidate is the caller's dictionary
AliasOf(i, n) == [obj |-> <<"nums", i>>, rec |-> n]

\* line 302: nn = dict(n) is a new dictionary, not the object nums[i]
CopyOf(i, n) == [obj |-> <<"dict", i>>, rec |-> n]

\* the claims of ns, each with its position in ns in a field of its own
Tagged(ns) ==
    [i \in 1..Len(ns) |->
        [f \in DOMAIN ns[i] \cup {"_src"} |-> IF f = "_src" THEN i ELSE ns[i][f]]]

\* the positions in ns of the claims whose candidates end up in picked
PickedSources(ns, kk) ==
    LET pk == PickAll(Candidates(Tagged(ns)), kk)
    IN  {pk[i]._src : i \in 1..Len(pk)}

\* the caller's list after the call: line 303 writes _score to the object
\* of every candidate, line 343 removes it from the object of every picked
\* one, and the list itself is never written
InputAfter(ns, kk) ==
    IF ns = <<>> THEN ns
    ELSE [i \in 1..Len(ns) |->
            IF CopyOf(i, ns[i]).obj # <<"nums", i>> THEN ns[i]
            ELSE IF i \in PickedSources(ns, kk) THEN PopScore(WithScore(ns[i]))
            ELSE WithScore(ns[i])]

(***************************************************************************)
(* classify_trend (app.py).  The triangles are the characters "UpTri" and  *)
(* "DownTri"; the argument is a record: nothing (None), a number, or text. *)
(***************************************************************************)
PyNone == [t |-> "none", s |-> <<>>]
PyNumber == [t |-> "num", s |-> <<>>]
PyText(s) == [t |-> "str", s |-> s]

\* line 555: the symbols and words that mean up
UpMarks == { <<"UpTri">>, <<"Sang", "Seung">>, <<"Jeung", "Ga">>, <<"Neul">> }

\* line 557: the symbols and words that mean down
DownMarks == { <<"DownTri">>, <<"Ha", "Rak">>, <<"Gam", "So">>, <<"Jul">> }

\* re.search(r"\+\s*\d", s) and re.search(r"-\s*\d", s): the sign, any
\* white space, a digit
SignedAt(s, i, sign) ==
    /\ s[i] = sign
    /\ LET j == i + 1 + SpaceRun(s, i + 1)
       IN  j <= Len(s) /\ IsDigit(s[j])

HasSigned(s, sign) == \E i \in 1..Len(s) : SignedAt(s, i, sign)

HasMark(s, marks) == \E w \in marks : Contains(s, w)

classify_trend(value_any) ==
    IF value_any.t = "none" THEN "neutral"                     \* lines 544-545
    ELSE IF value_any.t = "num" THEN "neutral"                 \* lines 548-549
    ELSE LET s == Strip(value_any.s)                           \* line 552
         IN  IF HasMark(s, UpMarks) \/ HasSigned(s, "+") THEN "up"
             ELSE IF HasMark(s, DownMarks) \/ HasSigned(s, "-") THEN "down"
             ELSE "neutral"

(***************************************************************************)
(* The labeling oracle and the merges of its replies (app.py).  A JSON     *)
(* value of a reply is a record with its type in the field t: "none" for   *)
(* an absent key, "str" with the text s, "num" for a number other than 0,  *)
(* "list" with the elements elems, "dict" with one field per key, and      *)
(* "fail" for a call that raised or a reply that is not JSON.  A function  *)
(* that can raise returns a record with the flag raised.                   *)
(***************************************************************************)
LabelCap == 12
RefineCap == 8
RefineOut == 6
RenderCap == 4
FetchItems == 20
DraftItems == 10
KpiCount == 4

PyList(elems) == [t |-> "list", elems |-> elems]
CallFailed == [t |-> "fail"]
\* the JSON object of a reply with the key items
ItemsReply(items) == [t |-> "dict", items |-> items]

\* enrich_labels: {} without a client (lines 274-276).  With a client the
\* f-string of lines 278-293 is evaluated first; its last line holds
\* {"items": [{"label":"", ...}, ...]} in single braces, a replacement field
\* whose format specifier str.__format__ rejects with a ValueError, outside
\* the try of line 295: the call of line 296 is never made
enrich_labels(client) ==
    IF ~client THEN [raised |-> FALSE, ret |-> ItemsReply(PyNone)]
    ELSE [raised |-> TRUE, ret |-> ItemsReply(PyNone)]

\* bool(v)
Truthy(v) ==
    CASE v.t = "str" -> v.s # <<>>
      [] v.t = "num" -> TRUE
      [] v.t = "list" -> v.elems # <<>>
      [] v.t = "dict" -> TRUE
      [] OTHER -> FALSE

\* v or ""
OrEmpty(v) == IF Truthy(v) THEN v ELSE PyText(<<>>)

\* n.get(f, "") on a claim, for the text fields
GetText(n, f) == IF f \in DOMAIN n THEN n[f] ELSE <<>>

\* n[f] = v on a claim
SetField(n, f, v) == [g \in DOMAIN n \cup {f} |-> IF g = f THEN v ELSE n[g]]

\* lines 337-339, 937-939, 1178-1180: the loop of the positional merge, from
\* claim i on; the labels are written to the claims themselves, so those
\* written before an exception stay
RECURSIVE MergeLabelsFrom(_, _, _)
MergeLabelsFrom(ns, items, i) ==
    IF i > Len(ns) THEN [raised |-> FALSE, nums |-> ns]
    ELSE IF i > Len(items) THEN MergeLabelsFrom(ns, items, i + 1)
    ELSE IF items[i].t # "dict" THEN [raised |-> TRUE, nums |-> ns]
    ELSE IF ~Truthy(items[i].label) THEN MergeLabelsFrom(ns, items, i + 1)
    ELSE IF items[i].label.t # "str" THEN [raised |-> TRUE, nums |-> ns]
    ELSE MergeLabelsFrom([ns EXCEPT ![i] = SetField(ns[i], "label", Strip(items[i].label.s))],
                         items, i + 1)

\* lines 336-339, 936-939, 1177-1180: items = enriched.get("items") or []
\* and the loop over a list of claims that is not empty
merge_labels(ns, enriched) ==
    IF enriched.t # "dict" THEN [raised |-> TRUE, nums |-> ns]
    ELSE IF ~Truthy(enriched.items) THEN [raised |-> FALSE, nums |-> ns]
    ELSE IF enriched.items.t # "list" THEN [raised |-> (ns # <<>>), nums |-> ns]
    ELSE MergeLabelsFrom(ns, enriched.items.elems, 1)

\* lines 394-399: the record built from an item of the reply
RefinedFields == <<"label", "value", "unit", "note">>

CanRefine(it) == \A i \in 1..Len(RefinedFields) : OrEmpty(it[RefinedFields[i]]).t = "str"

RefinedOf(it) ==
    [label |-> Strip(OrEmpty(it.label).s),
     value |-> PyText(Strip(OrEmpty(it.value).s)),
     unit |-> Strip(OrEmpty(it.unit).s),
     note |-> Strip(OrEmpty(it.note).s)]

\* lines 390-399: the loop over the items of the reply, from item i on
RECURSIVE RefineFrom(_, _, _)
RefineFrom(items, i, out) ==
    IF i > Len(items) THEN [raised |-> FALSE, ret |-> out]
    ELSE IF items[i].t # "dict" THEN [raised |-> TRUE, ret |-> out]
    ELSE IF items[i].drop THEN RefineFrom(items, i + 1, out)
    ELSE IF ~CanRefine(items[i]) THEN [raised |-> TRUE, ret |-> out]
    ELSE RefineFrom(items, i + 1, Append(out, RefinedOf(items[i])))

\* refine_numbers_with_openai(numbers, title_hint, text=text) with summary
\* left at its default; client tells whether get_openai_client() returns
\* one, data is the reply to the call of line 376
refine_numbers_with_openai(numbers, client, text_arg, data) ==
    IF ~client THEN [raised |-> FALSE, ret |-> numbers]                       \* 323-324
    ELSE IF numbers = <<>> THEN [raised |-> FALSE, ret |-> <<>>]              \* 326-327
    ELSE LET cut == Min(Len(numbers), RefineCap)                              \* 329
             nums_in == SubSeq(numbers, 1, cut)
             enriched == enrich_labels(client)                                \* 335
             merged == IF Strip(text_arg) = <<>>                              \* 334
                       THEN [raised |-> FALSE, nums |-> nums_in]
                       ELSE IF enriched.raised THEN [raised |-> TRUE, nums |-> nums_in]
                       ELSE merge_labels(nums_in, enriched.ret)               \* 336-339
             labeled == merged.nums \o SubSeq(numbers, cut + 1, Len(numbers))
         IN  IF merged.raised THEN [raised |-> TRUE, ret |-> <<>>]
             ELSE IF data.t = "fail" THEN [raised |-> FALSE, ret |-> labeled] \* 387-388
             ELSE IF data.t # "dict" THEN [raised |-> TRUE, ret |-> <<>>]     \* 391
             ELSE IF data.items.t = "none" THEN [raised |-> FALSE, ret |-> <<>>]
             ELSE IF data.items.t # "list" THEN [raised |-> TRUE, ret |-> <<>>]
             ELSE LET r == RefineFrom(data.items.elems, 1, <<>>)
                  IN  IF r.raised THEN [raised |-> TRUE, ret |-> <<>>]
                      ELSE [raised |-> FALSE,
                            ret |-> SubSeq(r.ret, 1, Min(Len(r.ret), RefineOut))]  \* 401

\* the trend names the oracle may send, as text
TrendNames == { <<"u", "p">>, <<"d", "o", "w", "n">>, <<"n", "e", "u", "t", "r", "a", "l">> }

TrendOfName(s) ==
    IF s = <<"u", "p">> THEN "up" ELSE IF s = <<"d", "o", "w", "n">> THEN "down" ELSE "neutral"

\* line 251: the first entry of kpis that is a dict with index i (from 0)
KpiFor(kpis, i) ==
    LET hits == {x \in 1..Len(kpis) : kpis[x].t = "dict" /\ kpis[x].index = i}
    IN  IF hits = {} THEN [t |-> "none"] ELSE kpis[SetMin(hits)]

\* lines 252-263: the merged claim of position i (from 0), or an exception
KpiLabelOf(n, out) == OrEmpty(IF out.t = "dict" THEN out.label ELSE PyText(<<>>))

KpiNoteOf(n, out) ==
    LET sent == IF out.t = "dict" THEN out.note ELSE PyText(<<>>)
    IN  IF Truthy(sent) THEN sent ELSE PyText(GetText(n, "note"))

KpiTrendOf(n, out) ==
    LET sent == IF out.t = "dict" THEN out.trend ELSE PyText(<<>>)
        trend_src == Strip(GetText(n, "raw") \o <<" ">> \o GetText(n, "context"))
    IN  IF Truthy(sent)
        THEN (IF sent.t = "str" /\ sent.s \in TrendNames THEN TrendOfName(sent.s) ELSE "neutral")
        ELSE classify_trend(PyText(trend_src))

\* lines 249-263: the loop of the merge, from claim i (from 1) on
RECURSIVE KpiMergeFrom(_, _, _, _)
KpiMergeFrom(ns, kpis, i, merged) ==
    IF i > Len(ns) THEN [raised |-> FALSE, ret |-> merged]
    ELSE LET out == KpiFor(kpis, i - 1)
             label == KpiLabelOf(ns[i], out)
             note == KpiNoteOf(ns[i], out)
         IN  IF label.t # "str" \/ note.t # "str" THEN [raised |-> TRUE, ret |-> merged]
             ELSE KpiMergeFrom(ns, kpis, i + 1,
                      Append(merged,
                          SetField(SetField(SetField(ns[i], "label", Strip(label.s)),
                                            "note", Strip(note.s)),
                                   "trend", KpiTrendOf(ns[i], out))))

\* infer_kpi_labels_with_ai: the merged list, or None; every exception of
\* lines 231-265 is caught at line 267
infer_kpi_labels_with_ai(numbers, data) ==
    LET nums12 == SubSeq(numbers, 1, Min(Len(numbers), LabelCap))             \* 195
        None == [none |-> TRUE, ret |-> <<>>]
    IN  IF data.t # "dict" THEN None                                          \* 242, 267
        ELSE IF data.kpis.t # "list" THEN None                                \* 242-247
        ELSE LET r == KpiMergeFrom(nums12, data.kpis.elems, 1, <<>>)
             IN  IF r.raised THEN None ELSE [none |-> FALSE, ret |-> r.ret]

\* lines 689-693: build_render_model writes a label and a trend to the
\* first four claims of spec.content.numbers
DefaultLabel == <<"Haek", "Sim", " ", "Ji", "Pyo">>

RenderedClaim(n) ==
    LET labeled == IF GetText(n, "label") = <<>> THEN SetField(n, "label", DefaultLabel) ELSE n
        src == IF GetText(n, "raw") # <<>> THEN GetText(n, "raw") ELSE GetText(n, "context")
    IN  SetField(labeled, "trend", classify_trend(PyText(src)))

NumbersAfterRender(ns) ==
    [i \in 1..Len(ns) |-> IF i <= RenderCap THEN RenderedClaim(ns[i]) ELSE ns[i]]

(***************************************************************************)
(* The guards of the fetch button (app.py): normalize_url, is_allowed_url  *)
(* and guard_rate_limit.  A URL is a sequence of characters; the clock     *)
(* counts seconds.                                                         *)
(***************************************************************************)
DeskSeconds == 6
PublicSeconds == 8

UpperCase == <<"A", "B", "C", "D", "E", "F", "G", "H", "I", "J", "K", "L", "M",
               "N", "O", "P", "Q", "R", "S", "T", "U", "V", "W", "X", "Y", "Z">>
LowerCase == <<"a", "b", "c", "d", "e", "f", "g", "h", "i", "j", "k", "l", "m",
               "n", "o", "p", "q", "r", "s", "t", "u", "v", "w", "x", "y", "z">>

IsLetter(c) == \E i \in 1..Len(UpperCase) : c = UpperCase[i] \/ c = LowerCase[i]

\* str.lower() on the characters of a URL
LowerChar(c) ==
    IF \E i \in 1..Len(UpperCase) : c = UpperCase[i]
    THEN LowerCase[CHOOSE i \in 1..Len(UpperCase) : c = UpperCase[i]]
    ELSE c

Lower(s) == [i \in 1..Len(s) |-> LowerChar(s[i])]

\* str.endswith
EndsWith(s, t) == Len(t) <= Len(s) /\ SubSeq(s, Len(s) - Len(t) + 1, Len(s)) = t

\* str.find(c) as a 1-based position, 0 when c does not occur
Find(s, cs) ==
    IF \E i \in 1..Len(s) : s[i] \in cs
    THEN CHOOSE i \in 1..Len(s) : s[i] \in cs /\ \A j \in 1..(i - 1) : s[j] \notin cs
    ELSE 0

\* str.rfind(c) as a 1-based position, 0 when c does not occur
RFind(s, cs) ==
    IF \E i \in 1..Len(s) : s[i] \in cs
    THEN CHOOSE i \in 1..Len(s) : s[i] \in cs /\ \A j \in (i + 1)..Len(s) : s[j] \notin cs
    ELSE 0

WwwDot == <<"w", "w", "w", ".">>
HttpsPrefix == <<"h", "t", "t", "p", "s", ":", "/", "/">>
SegyeCom == <<"s", "e", "g", "y", "e", ".", "c", "o", "m">>

\* lines 495-502
normalize_url(u) ==
    LET v == Strip(u)
    IN  IF v = <<>> THEN <<>>
        ELSE IF StartsWithAt(v, 1, WwwDot) THEN HttpsPrefix \o v
        ELSE v

\* urllib.parse.urlsplit: the characters of a scheme
IsSchemeChar(c) == IsLetter(c) \/ IsDigit(c) \/ c \in {"+", "-", "."}

\* urlsplit: what follows the scheme and its colon, or the whole text when
\* the text before the first colon is not a scheme
AfterScheme(u) ==
    LET i == Find(u, {":"})
    IN  IF i > 1 /\ IsLetter(u[1]) /\ \A j \in 1..(i - 1) : IsSchemeChar(u[j])
        THEN From(u, i + 1)
        ELSE u

\* urlparse(u).netloc: after "//", up to the first "/", "?" or "#"
Netloc(u) ==
    LET rest == AfterScheme(u)
    IN  IF StartsWithAt(rest, 1, <<"/", "/">>)
        THEN LET body == From(rest, 3)
                 e == Find(body, {"/", "?", "#"})
             IN  IF e = 0 THEN body ELSE SubSeq(body, 1, e - 1)
        ELSE <<>>

\* lines 505-511; urlparse raises on a netloc with an unmatched bracket
\* only, and no text below has a bracket
is_allowed_url(u) == EndsWith(Lower(Netloc(u)), SegyeCom)

\* urlparse(u).hostname: the netloc without the user before "@" and without
\* the port after ":", in lower case
Hostname(u) ==
    LET n == Netloc(u)
        h == From(n, RFind(n, {"@"}) + 1)
        c == Find(h, {":"})
    IN  Lower(IF c = 0 THEN h ELSE SubSeq(h, 1, c - 1))

\* the host is segye.com or a subdomain of it
IsSegyeHost(h) == h = SegyeCom \/ EndsWith(h, <<".">> \o SegyeCom)

\* guard_rate_limit with line 519 moved before the test of line 516
guard_rate_limit_stamped(t, last, seconds) ==
    [stopped |-> t - last < seconds, last_fetch_ts |-> t]

\* lines 514-519: st.stop() at line 518 leaves the script before line 519
guard_rate_limit(t, last, seconds) ==
    IF t - last < seconds
    THEN [stopped |-> TRUE, last_fetch_ts |-> last]
    ELSE [stopped |-> FALSE, last_fetch_ts |-> t]

(***************************************************************************)
(* The inputs the specifications draw from.                                *)
(***************************************************************************)
\* pieces of article text; a text is up to MaxFrags of them in a row
FragGrouped == <<"1", ",", "0", "0", "0", "Myeong", " ">>
FragPlain == <<"1", "0", "0", "0", "Myeong", " ">>
FragZeroFraction == <<"3", ".", "0", "%", " ">>
FragPercent == <<"3", "%", " ">>
FragSpaced == <<"3", " ", "%", " ">>
FragMonths == <<"3", "Gae", "Wol", " ">>
FragPoint == <<"2", "%", "p", " ">>
FragMoney == <<"2", "Jo", " ">>
FragEnd == <<"Ga", "Da", " ">>
FragDate == <<"2", "0", "2", "4", "-", "1", "1", "-", "0", "3", " ", "Da", " ">>
FragRound == <<"5", "Hoe", " ", "Da", " ">>
FragClock == <<"0", "8", ":", "5", "9", " ", "Da", " ">>
FragUrl == <<"h", "t", "t", "p", " ", "Da", " ">>

Frags ==
    {FragGrouped, FragPlain, FragZeroFraction, FragPercent, FragSpaced, FragMonths,
     FragPoint, FragMoney, FragEnd, FragDate, FragRound, FragClock, FragUrl}

\* a claim record as a caller of choose_kpis may hold it
MkClaim(ip, isFloat, unit, ctx) ==
    LET v == [ip |-> ip, fr |-> <<>>, float |-> isFloat]
    IN  [value |-> v, unit |-> unit, raw |-> PyStr(v) \o unit, context |-> ctx,
         label |-> <<>>, note |-> <<>>, trend |-> "neutral"]

Pct80 == MkClaim(80, FALSE, <<"%">>, <<"Ga", "Da">>)
Pct1 == MkClaim(1, FALSE, <<"%">>, <<"Ga", "Da">>)
Pct1Float == MkClaim(1, TRUE, <<"%">>, <<"Ga", "Da">>)
People1200 == MkClaim(1200, FALSE, <<"Myeong">>, <<"Ga", "Da">>)
People2 == MkClaim(2, FALSE, <<"Myeong">>, <<"Ga", "Ga", "Da">>)
Money3 == MkClaim(3, FALSE, <<"Jo">>, <<"Ga", "Da">>)
Years5 == MkClaim(5, FALSE, <<"Nyeon">>, <<"Ga", "Da">>)
Times7 == MkClaim(7, FALSE, <<"Bae">>, <<"Ga", "Da">>)

ClaimPool == {Pct80, Pct1, Pct1Float, People1200, People2, Money3, Years5, Times7}

\* claim lists handed to postprocess_numbers directly: two claims of one key
\* in different sentences, one of that key in a sentence with a URL marker,
\* two claims of equal score, and claims of the other score classes
Pct80Long == MkClaim(80, FALSE, <<"%">>, <<"Ga", "Ga", "Da">>)
Pct80Url == MkClaim(80, FALSE, <<"%">>, <<"h", "t", "t", "p">>)

PostPool == {Pct80, Pct80Long, Pct80Url, Pct1, People1200, People2, Money3}

PostTitles == { <<>>, <<"Ga", "Ga">> }

\* claims handed to the scoring functions: every unit of the pattern, two
\* units that hold the won sign or the percent sign among other characters,
\* and no unit; values on both sides of 2; contexts on both sides of the
\* cap of 180; labels that are empty, blank and not blank
ScoreUnitPool ==
    {UnitAlts[i] : i \in 1..Len(UnitAlts)} \cup { <<"Man", "Won">>, <<"%", "Won">>, <<>> }

ScoreValues ==
    { [ip |-> 1, fr |-> <<>>, float |-> FALSE], [ip |-> 2, fr |-> <<>>, float |-> TRUE],
      [ip |-> 2, fr |-> <<"5">>, float |-> TRUE], [ip |-> 3, fr |-> <<>>, float |-> FALSE] }

Title13 == <<"a", "b", "c", "d", "e", "f", "g", "h", "i", "j", "k", "l", "m">>
CtxHead == <<"a", "b", "c", "d", "e", "f", "g", "h", "i", "j", "k", "l">>
CtxOther == <<"a", "b", "c", "d", "e", "f", "g", "h", "i", "j", "k", "x">>
CtxAtCap == [i \in 1..CtxMax |-> "Da"]
CtxOverCap == [i \in 1..(CtxMax + 1) |-> "Da"]
CtxOverCapGa == [i \in 1..(CtxMax + 1) |-> "Ga"]

ScoreContexts == { <<>>, CtxHead, CtxOther, CtxAtCap, CtxOverCap, CtxOverCapGa }

ScoreLabels == { <<>>, <<" ">>, <<"a">>, <<" ", "a">> }

ScoreTitles == { <<>>, Title13, <<"Ga">> }

ScoreClaims ==
    {[value |-> v, unit |-> u, raw |-> PyStr(v) \o u, context |-> c,
      label |-> l, note |-> <<>>, trend |-> "neutral"] :
        v \in ScoreValues, u \in ScoreUnitPool, c \in ScoreContexts, l \in ScoreLabels}

\* arguments of classify_trend: a cue, or none, between a few neighbours
TrendCues ==
    UpMarks \cup DownMarks \cup
    { <<>>, <<"+">>, <<"-">>, <<"+", "3">>, <<"-", "3">>, <<"+", " ", "3">>, <<"-", " ", "3">>,
      <<"3", "%">>, <<"3", "-", "Ga">>, <<"2", "0", "2", "4", "-", "1", "1", "-", "0", "3">>,
      <<"0", "1", "0", "-", "1", "2", "3", "4", "-", "5", "6", "7", "8">>,
      <<"+", "8", "2", "-", "2">> }

TrendPrefixes == { <<>>, <<"Ga", " ">>, <<" ">>, <<"3", "%", " ">> }

TrendSuffixes == { <<>>, <<"Yi", "Da">>, <<" ", "3", "0", "Myeong">> }

TrendArgs ==
    {PyNone, PyNumber} \cup
    {PyText(p \o c \o x) : p \in TrendPrefixes, c \in TrendCues, x \in TrendSuffixes}

\* articles: a sentence with a word for increase, one with a signed
\* numeral, one with neither
SentUp == <<"8", "0", "%", " ", "Jeung", "Ga", "Da", " ">>
SentSigned == <<"-", "3", "0", "Myeong", " ", "Da", " ">>
SentPlain == <<"3", "Jo", " ", "Ga", "Da", " ">>

ArticleTexts == {SentUp, SentUp \o SentSigned, SentPlain \o SentSigned \o SentUp}

\* items of a reply to enrich_labels and to the call of line 376
Item(label, value, unit, note, drop) ==
    [t |-> "dict", label |-> label, value |-> value, unit |-> unit, note |-> note,
     drop |-> drop]

ItemFull == Item(PyText(<<" ", "a">>), PyText(<<"9">>), PyText(<<"%">>), PyText(<<"n">>), FALSE)
ItemEmpty == Item(PyNone, PyNone, PyNone, PyNone, FALSE)
ItemNumeric == Item(PyText(<<"b">>), PyNumber, PyText(<<"%">>), PyNone, FALSE)
ItemDropped == Item(PyText(<<"d">>), PyText(<<"9">>), PyNone, PyNone, TRUE)

ItemPool == {ItemFull, ItemEmpty, ItemNumeric, ItemDropped, PyNumber}

\* the JSON of the reply to the call of line 376, or the failure of the call
RefineReplies ==
    {CallFailed, ItemsReply(PyNone), ItemsReply(PyNumber), PyList(<<>>)} \cup
    {ItemsReply(PyList(l)) : l \in UNION {[1..n -> ItemPool] : n \in 0..MaxReply}}

\* entries of a reply to infer_kpi_labels_with_ai
Kpi(index, label, note, trend) ==
    [t |-> "dict", index |-> index, label |-> label, note |-> note, trend |-> trend]

KpiFirst == Kpi(0, PyText(<<" ", "a">>), PyNone, PyText(<<"s">>))
KpiSecond == Kpi(1, PyText(<<"b">>), PyText(<<"n">>), PyText(<<"u", "p">>))
KpiFar == Kpi(5, PyText(<<"c">>), PyNone, PyNone)
KpiNumeric == Kpi(0, PyNumber, PyNone, PyNone)

KpiPool == {KpiFirst, KpiSecond, KpiFar, KpiNumeric, PyNumber}

KpisReply(kpis) == [t |-> "dict", kpis |-> kpis]

\* the JSON of the reply, or no client, a failed call or a reply that is
\* not JSON
KpiReplies ==
    {CallFailed, KpisReply(PyNone), KpisReply(PyNumber)} \cup
    {KpisReply(PyList(l)) : l \in UNION {[1..n -> KpiPool] : n \in 0..MaxReply}}

\* contexts around a calendar date, and a few without one
DatePrefixes == { <<>>, <<"Ga", " ">>, <<"Ga">> }
DateYears == { <<"2", "0", "2", "4">>, <<"1", "9", "9", "9">> }
DateMonths == { <<"1">>, <<"1", "1">> }
DateDays == { <<"3">>, <<"0", "3">> }
DateSuffixes == { <<>>, <<" ", "Ga">>, <<".">>, <<"Yi", "Da">> }

DateContexts ==
    {p \o y \o <<s1>> \o m \o <<s2>> \o d \o x :
        p \in DatePrefixes, y \in DateYears, s1 \in DateSeps, m \in DateMonths,
        s2 \in DateSeps, d \in DateDays, x \in DateSuffixes}

OtherContexts ==
    { <<"3", "%", " ", "Ga", "Da">>, <<"0", "8", ":", "5", "9">>, <<"h", "t", "t", "p">>,
      <<"Je", "3", "Hoe">>, <<"2", "0", "2", "4">>, <<>> }

NoiseRaws == { <<"3", "%">>, <<"2", "0", "2", "6", "0", "2", "2", "3", "%">> }

(***************************************************************************)
(* Specifications: one per function under check.  Each leaves the          *)
(* variables of the others at rest.                                        *)
(***************************************************************************)
ExtractIdle ==
    /\ text = <<>> /\ text_none = FALSE /\ nfrags = 0 /\ max_items = 0
    /\ discovered = <<>> /\ results = <<>> /\ called = FALSE /\ xraised = FALSE

KpiIdle == nums = <<>> /\ k = 0 /\ picked = <<>> /\ kcalled = FALSE /\ nums_after = <<>>

NoiseIdle == nraw = <<>> /\ nctx = <<>> /\ nres = FALSE /\ ncalled = FALSE

PostIdle == pnums = <<>> /\ ptitle = <<>> /\ pout = <<>> /\ pcalled = FALSE

ScoresIdle == kscore = 0 /\ pscore = 0 /\ escore = 0 /\ scored = FALSE

ScoreIdle == sclaim = <<>> /\ stitle = <<>> /\ ScoresIdle

TrendIdle == targ = <<>> /\ ttrend = "neutral" /\ tcalled = FALSE

\* the session before the first handler: default_spec has no numbers
SessionIdle ==
    /\ article_text = <<>> /\ spec_numbers = <<>> /\ rm_numbers = <<>>
    /\ dirty = FALSE /\ headline = <<>>
    /\ svg_exists = FALSE /\ svg_of = [numbers |-> <<>>, headline |-> <<>>]
    /\ last_op = "none" /\ prior = <<>> /\ missing = {}
    /\ raised = FALSE /\ nops = 0

AppIdle ==
    /\ atext = <<>> /\ extracted10 = <<>> /\ extracted20 = <<>>
    /\ public = FALSE /\ SessionIdle

RefineResultIdle == rret = <<>> /\ rraised = FALSE /\ rcalled = FALSE

RefineIdle ==
    rnumbers = <<>> /\ rclient = FALSE /\ rtext = <<>> /\ rdata = CallFailed /\ RefineResultIdle

\* no fetch was requested: lines 790-791 start last_fetch_ts at 0.0
RequestIdle == req_url = <<>> /\ req_prior_ts = 0 /\ req_outcome = "none" /\ accepted = <<>>

GuardIdle == now = 0 /\ last_fetch_ts = 0 /\ RequestIdle

LateIdle == GuardIdle /\ frames = <<>>

RestIdle == PostIdle /\ ScoreIdle /\ TrendIdle /\ AppIdle /\ RefineIdle /\ LateIdle

\* --- extract_numbers_with_context
InitExtract == ExtractIdle /\ KpiIdle /\ NoiseIdle /\ RestIdle

AddFragment(f) ==
    /\ ~called
    /\ nfrags < MaxFrags
    /\ text' = text \o f
    /\ nfrags' = nfrags + 1
    /\ UNCHANGED <<text_none, max_items, discovered, results, called, xraised>>
    /\ UNCHANGED <<kpiVars, noiseVars, restVars>>

Extract(cap) ==
    /\ ~called
    /\ max_items' = cap
    /\ LET arg == TextOrEmpty(text_none, text)               \* line 105
       IN  /\ xraised' = arg.raised
           /\ discovered' = IF arg.raised THEN <<>>
                             ELSE Discovered(arg.s, cap)      \* lines 118-158
    /\ results' = postprocess_numbers(discovered', <<>>)     \* lines 160-161
    /\ called' = TRUE
    /\ UNCHANGED <<text, text_none, nfrags, kpiVars, noiseVars, restVars>>

NextExtract ==
    \/ \E f \in Frags : AddFragment(f)
    \/ \E cap \in 0..MaxItems : Extract(cap)

SpecExtract == InitExtract /\ [][NextExtract]_vars

\* --- choose_kpis
InitKpi == ExtractIdle /\ KpiIdle /\ NoiseIdle /\ RestIdle

AddClaim(c) ==
    /\ ~kcalled
    /\ Len(nums) < MaxClaims
    /\ nums' = Append(nums, c)
    /\ UNCHANGED <<k, picked, kcalled, nums_after, extractVars, noiseVars, restVars>>

ChooseKpis(kk) ==
    /\ ~kcalled
    /\ k' = kk
    /\ picked' = choose_kpis(nums, kk)
    /\ nums_after' = InputAfter(nums, kk)
    /\ kcalled' = TRUE
    /\ UNCHANGED <<nums, extractVars, noiseVars, restVars>>

NextKpi ==
    \/ \E c \in ClaimPool : AddClaim(c)
    \/ \E kk \in 0..MaxK : ChooseKpis(kk)

SpecKpi == InitKpi /\ [][NextKpi]_vars

\* --- _is_noise_number
InitNoise ==
    /\ ExtractIdle /\ KpiIdle /\ RestIdle
    /\ nraw \in NoiseRaws
    /\ nctx \in DateContexts \cup OtherContexts
    /\ nres = FALSE
    /\ ncalled = FALSE

CheckNoise ==
    /\ ~ncalled
    /\ nres' = _is_noise_number(nraw, nctx)
    /\ ncalled' = TRUE
    /\ UNCHANGED <<nraw, nctx, extractVars, kpiVars, restVars>>

NextNoise == CheckNoise

SpecNoise == InitNoise /\ [][NextNoise]_vars

\* --- postprocess_numbers, called with a list and a title of the caller
InitPost == ExtractIdle /\ KpiIdle /\ NoiseIdle /\ RestIdle

AddNumber(c) ==
    /\ ~pcalled
    /\ Len(pnums) < MaxPost
    /\ pnums' = Append(pnums, c)
    /\ UNCHANGED <<ptitle, pout, pcalled>>
    /\ UNCHANGED <<extractVars, kpiVars, noiseVars, scoreVars, trendVars, appVars,
                   refineVars, lateVars>>

Postprocess(title) ==
    /\ ~pcalled
    /\ ptitle' = title
    /\ pout' = postprocess_numbers(pnums, title)
    /\ pcalled' = TRUE
    /\ UNCHANGED pnums
    /\ UNCHANGED <<extractVars, kpiVars, noiseVars, scoreVars, trendVars, appVars,
                   refineVars, lateVars>>

NextPost ==
    \/ \E c \in PostPool : AddNumber(c)
    \/ \E title \in PostTitles : Postprocess(title)

SpecPost == InitPost /\ [][NextPost]_vars

\* --- the scoring functions, on one claim of an article with a title
InitScore ==
    /\ ExtractIdle /\ KpiIdle /\ NoiseIdle /\ PostIdle /\ TrendIdle /\ AppIdle /\ RefineIdle
    /\ LateIdle
    /\ sclaim \in ScoreClaims
    /\ stitle \in ScoreTitles
    /\ ScoresIdle

ScoreClaim ==
    /\ ~scored
    /\ kscore' = _kpi_score(sclaim)
    /\ pscore' = PostScore60(sclaim, stitle)
    /\ escore' = ExtractScore60(sclaim)
    /\ scored' = TRUE
    /\ UNCHANGED <<sclaim, stitle>>
    /\ UNCHANGED <<extractVars, kpiVars, noiseVars, postVars, trendVars, appVars,
                   refineVars, lateVars>>

NextScore == ScoreClaim

SpecScore == InitScore /\ [][NextScore]_vars

\* --- classify_trend
InitTrend ==
    /\ ExtractIdle /\ KpiIdle /\ NoiseIdle /\ PostIdle /\ ScoreIdle /\ AppIdle /\ RefineIdle
    /\ LateIdle
    /\ targ \in TrendArgs
    /\ ttrend = "neutral"
    /\ tcalled = FALSE

ClassifyTrend ==
    /\ ~tcalled
    /\ ttrend' = classify_trend(targ)
    /\ tcalled' = TRUE
    /\ UNCHANGED <<targ, extractVars, kpiVars, noiseVars, postVars, scoreVars, appVars,
                   refineVars, lateVars>>

NextTrend == ClassifyTrend

SpecTrend == InitTrend /\ [][NextTrend]_vars

\* titles of fetched articles, and headlines typed or drafted
FetchTitles == { <<>>, <<" ", "Ga">> }
Headlines == { <<>>, <<"Gi">> }

\* --- the handlers of run_desk_mode and run_public_mode that write
\* spec.content.numbers, on one article
\* the positions of ns a reply to infer_kpi_labels_with_ai has no entry for
MissingKpis(ns, reply) ==
    IF reply.t = "dict" /\ reply.kpis.t = "list"
    THEN {i \in 1..Len(ns) : KpiFor(reply.kpis.elems, i - 1).t = "none"}
    ELSE 1..Len(ns)

Ran(op, worked_on, miss, exc) ==
    /\ last_op' = op
    /\ prior' = worked_on
    /\ missing' = miss
    /\ raised' = exc
    /\ nops' = nops + 1

InitApp ==
    /\ ExtractIdle /\ KpiIdle /\ NoiseIdle /\ PostIdle /\ ScoreIdle /\ TrendIdle
    /\ RefineIdle /\ LateIdle
    /\ atext \in ArticleTexts
    /\ public \in BOOLEAN
    /\ extracted10 = extract_numbers_with_context(atext, DraftItems)
    /\ extracted20 = extract_numbers_with_context(atext, FetchItems)
    /\ SessionIdle

\* the part of the spec the stored SVG is compared with
CurrentSpec == [numbers |-> spec_numbers, headline |-> headline]

\* lines 859-873, 1083-1098: the article is loaded; lines 867-868 and
\* 1092-1093 take the headline from its title when there is none
Fetch(title) ==
    /\ nops < MaxOps
    /\ article_text' = atext
    /\ headline' = IF headline = <<>> THEN Strip(title) ELSE headline
    /\ spec_numbers' = choose_kpis(extracted20, KpiCount)
    /\ Ran("fetch", spec_numbers, {}, FALSE)
    /\ UNCHANGED <<atext, extracted10, extracted20, rm_numbers>>
    /\ UNCHANGED <<public, dirty, svg_exists, svg_of>>
    /\ UNCHANGED <<extractVars, kpiVars, noiseVars, postVars, scoreVars, trendVars,
                   refineVars, lateVars>>

\* lines 885-900, 1119-1125: the draft; an exception leaves the handler
\* before the assignment of line 900 or 1125.  In desk mode line 886 has
\* by then put the headline h of generate_draft_with_openai, if it has
\* one, in the spec
Draft(client, data, h) ==
    /\ nops < MaxOps
    /\ article_text # <<>>
    /\ headline' = IF ~public /\ h # <<>> THEN h ELSE headline
    /\ LET r == refine_numbers_with_openai(extracted10, client, article_text, data)
       IN  /\ spec_numbers' = IF r.raised THEN spec_numbers ELSE r.ret
           /\ Ran("draft", extracted10, {}, r.raised)
    /\ UNCHANGED <<atext, extracted10, extracted20, article_text, rm_numbers>>
    /\ UNCHANGED <<public, dirty, svg_exists, svg_of>>
    /\ UNCHANGED <<extractVars, kpiVars, noiseVars, postVars, scoreVars, trendVars,
                   refineVars, lateVars>>

\* lines 919-941, 1162-1183: the label button; an exception of
\* enrich_labels leaves the handler before the merge, and what it returns
\* otherwise has no item for any position
Label(client) ==
    /\ nops < MaxOps
    /\ article_text # <<>>
    /\ spec_numbers # <<>>
    /\ LET enriched == enrich_labels(client)
           r == IF enriched.raised THEN [raised |-> TRUE, nums |-> spec_numbers]
                ELSE merge_labels(spec_numbers, enriched.ret)
       IN  /\ spec_numbers' = r.nums
           /\ Ran("label", spec_numbers,
                  IF enriched.raised THEN {} ELSE 1..Len(spec_numbers), r.raised)
    /\ UNCHANGED <<atext, extracted10, extracted20, article_text, rm_numbers>>
    /\ UNCHANGED <<public, dirty, headline, svg_exists, svg_of>>
    /\ UNCHANGED <<extractVars, kpiVars, noiseVars, postVars, scoreVars, trendVars,
                   refineVars, lateVars>>

\* lines 945-961, 1187-1205: the KPI label button; lines 961 and 1203 set
\* dirty when the labeled list is put in the spec
KpiLabel(data) ==
    /\ nops < MaxOps
    /\ spec_numbers # <<>>
    /\ LET r == infer_kpi_labels_with_ai(spec_numbers, data)
           n == Min(Len(spec_numbers), LabelCap)
       IN  /\ spec_numbers' = IF ~r.none /\ r.ret # <<>> THEN r.ret ELSE spec_numbers
           /\ dirty' = IF ~r.none /\ r.ret # <<>> THEN TRUE ELSE dirty
           /\ Ran("kpi_label", spec_numbers,
                  IF r.none THEN {} ELSE MissingKpis(SubSeq(spec_numbers, 1, n), data), FALSE)
    /\ UNCHANGED <<atext, extracted10, extracted20, article_text, rm_numbers>>
    /\ UNCHANGED <<public, headline, svg_exists, svg_of>>
    /\ UNCHANGED <<extractVars, kpiVars, noiseVars, postVars, scoreVars, trendVars,
                   refineVars, lateVars>>

\* lines 1240-1260: the save button of run_public_mode puts the text of the
\* headline input in the spec
Save(h) ==
    /\ nops < MaxOps
    /\ public
    /\ headline' = h
    /\ dirty' = TRUE
    /\ Ran("save", spec_numbers, {}, FALSE)
    /\ UNCHANGED <<atext, extracted10, extracted20, article_text, spec_numbers, rm_numbers>>
    /\ UNCHANGED <<public, svg_exists, svg_of>>
    /\ UNCHANGED <<extractVars, kpiVars, noiseVars, postVars, scoreVars, trendVars,
                   refineVars, lateVars>>

\* line 1003: the headline input of run_desk_mode writes the spec as typed
Edit(h) ==
    /\ nops < MaxOps
    /\ ~public
    /\ headline' = h
    /\ Ran("edit", spec_numbers, {}, FALSE)
    /\ UNCHANGED <<atext, extracted10, extracted20, article_text, spec_numbers, rm_numbers>>
    /\ UNCHANGED <<public, dirty, svg_exists, svg_of>>
    /\ UNCHANGED <<extractVars, kpiVars, noiseVars, postVars, scoreVars, trendVars,
                   refineVars, lateVars>>

\* lines 1015-1018, 1264-1268: build_render_model(st.session_state.spec);
\* line 777 hands out the list of the spec itself.  The SVG is drawn from
\* the render model; only run_public_mode clears the flag, at line 1268
Render ==
    /\ nops < MaxOps
    /\ spec_numbers' = NumbersAfterRender(spec_numbers)
    /\ rm_numbers' = spec_numbers'
    /\ svg_exists' = TRUE
    /\ svg_of' = [numbers |-> rm_numbers', headline |-> headline]
    /\ dirty' = IF public THEN FALSE ELSE dirty
    /\ Ran("render", spec_numbers, {}, FALSE)
    /\ UNCHANGED <<atext, extracted10, extracted20, article_text, public, headline>>
    /\ UNCHANGED <<extractVars, kpiVars, noiseVars, postVars, scoreVars, trendVars,
                   refineVars, lateVars>>

NextApp ==
    \/ \E title \in FetchTitles : Fetch(title)
    \/ \E client \in BOOLEAN, data \in RefineReplies, h \in Headlines :
            Draft(client, data, h)
    \/ \E h \in Headlines : Save(h)
    \/ \E h \in Headlines : Edit(h)
    \/ \E client \in BOOLEAN : Label(client)
    \/ \E data \in KpiReplies : KpiLabel(data)
    \/ Render

SpecApp == InitApp /\ [][NextApp]_vars

\* --- refine_numbers_with_openai called on the claims of an article
RefineTexts == { <<>>, <<" ">>, <<"Ga", "Da">> }

InitRefine ==
    /\ ExtractIdle /\ KpiIdle /\ NoiseIdle /\ PostIdle /\ ScoreIdle /\ TrendIdle
    /\ AppIdle /\ LateIdle
    /\ rnumbers \in {extract_numbers_with_context(a, DraftItems) : a \in ArticleTexts}
    /\ rclient \in BOOLEAN
    /\ rtext \in RefineTexts
    /\ rdata \in RefineReplies
    /\ RefineResultIdle

Refine ==
    /\ ~rcalled
    /\ LET r == refine_numbers_with_openai(rnumbers, rclient, rtext, rdata)
       IN  /\ rret' = r.ret
           /\ rraised' = r.raised
    /\ rcalled' = TRUE
    /\ UNCHANGED <<rnumbers, rclient, rtext, rdata>>
    /\ UNCHANGED <<extractVars, kpiVars, noiseVars, postVars, scoreVars, trendVars,
                   appVars, lateVars>>

NextRefine == Refine

SpecRefine == InitRefine /\ [][NextRefine]_vars

\* --- the fetch button of both modes, pressed at any time of a session
\* texts typed in the URL input
UrlEmpty == <<>>
UrlBlank == <<" ">>
UrlBare == <<"s", "e", "g", "y", "e", ".", "c", "o", "m", "/", "a">>
UrlWww == <<" ", "w", "w", "w", ".", "s", "e", "g", "y", "e", ".", "c", "o", "m", " ">>
UrlPlain ==
    <<"h", "t", "t", "p", "s", ":", "/", "/", "s",
      "e", "g", "y", "e", ".", "c", "o", "m", "/", "a">>
UrlSub ==
    <<"h", "t", "t", "p", ":", "/", "/", "m", ".",
      "s", "e", "g", "y", "e", ".", "c", "o", "m">>
UrlUpper ==
    <<"H", "T", "T", "P", "S", ":", "/", "/", "W", "W", "W",
      ".", "S", "E", "G", "Y", "E", ".", "C", "O", "M", "/", "a">>
UrlLookalike ==
    <<"h", "t", "t", "p", "s", ":", "/", "/", "e", "v", "i",
      "l", "s", "e", "g", "y", "e", ".", "c", "o", "m", "/", "a">>
UrlWwwLookalike ==
    <<"w", "w", "w", ".", "n", "o", "t", "s",
      "e", "g", "y", "e", ".", "c", "o", "m">>
UrlSuffixed ==
    <<"h", "t", "t", "p", "s", ":", "/", "/", "s", "e", "g",
      "y", "e", ".", "c", "o", "m", ".", "i", "o", "/", "a">>
UrlInPath ==
    <<"h", "t", "t", "p", "s", ":", "/", "/", "e", "v", "i", "l",
      ".", "i", "o", "/", "s", "e", "g", "y", "e", ".", "c", "o", "m">>
UrlInQuery ==
    <<"h", "t", "t", "p", "s", ":", "/", "/", "e", "v", "i", "l",
      ".", "i", "o", "?", "s", "e", "g", "y", "e", ".", "c", "o", "m">>
UrlInFragment ==
    <<"h", "t", "t", "p", "s", ":", "/", "/", "e", "v", "i", "l",
      ".", "i", "o", "#", "s", "e", "g", "y", "e", ".", "c", "o", "m">>
UrlUser ==
    <<"h", "t", "t", "p", "s", ":", "/", "/", "a", "@",
      "s", "e", "g", "y", "e", ".", "c", "o", "m", "/">>
UrlPort ==
    <<"h", "t", "t", "p", "s", ":", "/", "/", "s", "e", "g",
      "y", "e", ".", "c", "o", "m", ":", "8", "0", "/", "a">>
UrlNoScheme == <<"/", "/", "s", "e", "g", "y", "e", ".", "c", "o", "m">>
UrlMail ==
    <<"m", "a", "i", "l", "t", "o", ":", "a", "@",
      "s", "e", "g", "y", "e", ".", "c", "o", "m">>
UrlBadScheme == <<"1", "x", ":", "/", "/", "s", "e", "g", "y", "e", ".", "c", "o", "m">>
TypedUrls ==
    {UrlEmpty, UrlBlank, UrlBare, UrlWww, UrlPlain, UrlSub, UrlUpper, UrlLookalike,
     UrlWwwLookalike, UrlSuffixed, UrlInPath, UrlInQuery, UrlInFragment, UrlUser, UrlPort,
     UrlNoScheme, UrlMail, UrlBadScheme}

\* time.time() when the session starts: seconds since 1970, far beyond any
\* waiting period
StartTime == 1000

InitGuard ==
    /\ ExtractIdle /\ KpiIdle /\ NoiseIdle /\ PostIdle /\ ScoreIdle /\ TrendIdle
    /\ AppIdle /\ RefineIdle
    /\ now = StartTime /\ last_fetch_ts = 0 /\ RequestIdle
    /\ frames = <<>>

\* a second passes
Tick ==
    /\ now < StartTime + MaxClock
    /\ now' = now + 1
    /\ UNCHANGED <<last_fetch_ts, req_url, req_prior_ts, req_outcome, accepted, frames>>
    /\ UNCHANGED <<extractVars, kpiVars, noiseVars, postVars, scoreVars, trendVars,
                   appVars, refineVars>>

\* lines 846, 853-858 and 1061, 1071-1082: the fetch button up to the call
\* of extract_article(url)
FetchRequest(is_public, typed) ==
    LET url == normalize_url(typed)
        seconds == IF is_public THEN PublicSeconds ELSE DeskSeconds
        refused == url = <<>> \/ ~is_allowed_url(url)
        g == guard_rate_limit(now, last_fetch_ts, seconds)
    IN  /\ req_url' = url
        /\ req_prior_ts' = last_fetch_ts
        /\ req_outcome' = IF refused THEN "refused"
                          ELSE IF g.stopped THEN "stopped" ELSE "fetched"
        /\ last_fetch_ts' = IF refused THEN last_fetch_ts ELSE g.last_fetch_ts
        /\ accepted' = IF refused \/ g.stopped THEN accepted
                       ELSE Append(accepted, [at |-> now, seconds |-> seconds])
        /\ UNCHANGED <<now, frames>>
        /\ UNCHANGED <<extractVars, kpiVars, noiseVars, postVars, scoreVars, trendVars,
                       appVars, refineVars>>

NextGuard ==
    \/ Tick
    \/ \E is_public \in BOOLEAN, typed \in TypedUrls : FetchRequest(is_public, typed)

SpecGuard == InitGuard /\ [][NextGuard]_vars

\* --- invocations of extract_numbers_with_context and choose_kpis from
\* several calling contexts, their steps interleaved
\* the local variables of an invocation as it is entered
ExtractFrame(t, cap) ==
    [fn |-> "extract", arg |-> t, limit |-> cap, pc |-> "split", overlapped |-> FALSE,
     sentences |-> <<>>, si |-> 1, results |-> <<>>, seen |-> {},
     candidates |-> <<>>, picked |-> <<>>, ret |-> <<>>]

KpisFrame(ns, kk) ==
    [fn |-> "kpis", arg |-> ns, limit |-> kk, pc |-> "score", overlapped |-> FALSE,
     sentences |-> <<>>, si |-> 1, results |-> <<>>, seen |-> {},
     candidates |-> <<>>, picked |-> <<>>, ret |-> <<>>]

StartFrames ==
    {ExtractFrame(a, DraftItems) : a \in ArticleTexts}
    \cup {ExtractFrame(SentUp \o SentSigned, 1)}
    \cup {KpisFrame(extract_numbers_with_context(a, DraftItems), KpiCount) :
            a \in {SentUp \o SentSigned, SentPlain \o SentSigned \o SentUp}}
    \cup {KpisFrame(extract_numbers_with_context(SentUp \o SentSigned, DraftItems), 1)}

\* one set seen for the module, read by every invocation
SeenShared(fs, i) == UNION {fs[j].seen : j \in DOMAIN fs}

\* line 125: seen = set() is a local of the invocation
SeenOf(fs, i) == fs[i].seen

\* another invocation is between its first step and its return
Overlaps(fs, i) == \E j \in DOMAIN fs : j # i /\ fs[j].pc \notin {"split", "score", "done"}

\* extract_numbers_with_context, one step: line 123 splits the text, each
\* turn of the loop of lines 127-158 scans a sentence, line 160 returns
ExtractStep(fs, i) ==
    LET f == fs[i]
        g == [f EXCEPT !.overlapped = f.overlapped \/ Overlaps(fs, i)]
    IN  CASE f.pc = "split" ->
               [g EXCEPT !.sentences = _split_sentences_ko(f.arg), !.pc = "scan"]
          [] f.pc = "scan" /\ f.si > Len(f.sentences) -> [g EXCEPT !.pc = "post"]
          [] f.pc = "scan" /\ f.si <= Len(f.sentences) ->
               LET sent == f.sentences[f.si]
                   r == ScanSentence(sent, FindIter(sent, 1), 1, f.results,
                                     SeenOf(fs, i), f.limit)
               IN  [g EXCEPT !.results = r.results, !.seen = r.seen, !.si = f.si + 1,
                             !.pc = IF Len(r.results) >= f.limit THEN "post" ELSE "scan"]
          [] f.pc = "post" ->
               [g EXCEPT !.ret = postprocess_numbers(f.results, <<>>), !.pc = "done"]

\* choose_kpis, one step: lines 297-305 score and sort, lines 325-328,
\* 330-331 and 333-340 pick, lines 342-344 return
KpisStep(fs, i) ==
    LET f == fs[i]
        g == [f EXCEPT !.overlapped = f.overlapped \/ Overlaps(fs, i)]
    IN  CASE f.pc = "score" /\ f.arg = <<>> -> [g EXCEPT !.pc = "done"]
          [] f.pc = "score" /\ f.arg # <<>> ->
               [g EXCEPT !.candidates = Candidates(f.arg), !.pc = "first"]
          [] f.pc = "first" ->
               [g EXCEPT !.picked = FirstPass(f.candidates, f.limit), !.pc = "second"]
          [] f.pc = "second" ->
               [g EXCEPT !.picked = SecondRatio(f.candidates, f.picked, f.limit),
                         !.pc = "fill"]
          [] f.pc = "fill" ->
               [g EXCEPT !.picked = FillRest(f.candidates, f.picked, f.limit),
                         !.pc = "return"]
          [] f.pc = "return" ->
               [g EXCEPT !.ret = Returned(f.picked, f.limit), !.pc = "done"]

InitCalls ==
    /\ ExtractIdle /\ KpiIdle /\ NoiseIdle /\ PostIdle /\ ScoreIdle /\ TrendIdle
    /\ AppIdle /\ RefineIdle /\ GuardIdle
    /\ frames \in [1..MaxCalls -> StartFrames]

StepExtract(i) ==
    /\ frames[i].fn = "extract" /\ frames[i].pc # "done"
    /\ frames' = [frames EXCEPT ![i] = ExtractStep(frames, i)]
    /\ UNCHANGED <<guardVars, extractVars, kpiVars, noiseVars, postVars, scoreVars,
                   trendVars, appVars, refineVars>>

StepKpis(i) ==
    /\ frames[i].fn = "kpis" /\ frames[i].pc # "done"
    /\ frames' = [frames EXCEPT ![i] = KpisStep(frames, i)]
    /\ UNCHANGED <<guardVars, extractVars, kpiVars, noiseVars, postVars, scoreVars,
                   trendVars, appVars, refineVars>>

NextCalls ==
    \/ \E i \in 1..MaxCalls : StepExtract(i)
    \/ \E i \in 1..MaxCalls : StepKpis(i)

SpecCalls == InitCalls /\ [][NextCalls]_vars

\* --- extract_numbers_with_context on texts without a numeral, without a
\* unit or without anything, and choose_kpis on the empty list
FragBare == <<"2", "p", " ">>
FragNoUnit == <<"3", " ">>
FragBlank == <<" ">>

ScanFrags == {FragBare, FragNoUnit, FragBlank, FragEnd, FragPercent, FragDate, FragUrl}

ScanTexts == UNION {[1..n -> ScanFrags] : n \in 0..MaxScan}

RECURSIVE Concat(_)
Concat(parts) == IF parts = <<>> THEN <<>> ELSE Head(parts) \o Concat(Tail(parts))

InitScan ==
    /\ KpiIdle /\ NoiseIdle /\ RestIdle
    /\ text_none \in BOOLEAN
    /\ \E parts \in ScanTexts :
          /\ text = IF text_none THEN <<>> ELSE Concat(parts)
          /\ nfrags = IF text_none THEN 0 ELSE Len(parts)
    /\ max_items = 0 /\ discovered = <<>> /\ results = <<>>
    /\ called = FALSE /\ xraised = FALSE

NextScan ==
    \/ \E cap \in 0..MaxItems : Extract(cap)
    \/ \E kk \in 0..MaxK : ChooseKpis(kk)

SpecScan == InitScan /\ [][NextScan]_vars

\* --- the two descending sorts, on one list of claims
SortPool == {Pct80, Pct1, Pct1Float, Pct80Long, Pct80Url, People1200}

InitSort ==
    /\ ExtractIdle /\ NoiseIdle /\ ScoreIdle /\ TrendIdle /\ AppIdle /\ RefineIdle
    /\ LateIdle
    /\ nums \in UNION {[1..n -> SortPool] : n \in 0..MaxSort}
    /\ pnums = nums
    /\ k = 0 /\ picked = <<>> /\ kcalled = FALSE /\ nums_after = <<>>
    /\ ptitle = <<>> /\ pout = <<>> /\ pcalled = FALSE

NextSort ==
    \/ \E kk \in 0..MaxK : ChooseKpis(kk)
    \/ \E title \in PostTitles : Postprocess(title)

SpecSort == InitSort /\ [][NextSort]_vars

(***************************************************************************)
(* Claims about choose_kpis (under SpecKpi).                               *)
(***************************************************************************)
\* two claims have equal value and equal unit (3 and 3.0 are equal values)
SamePair(a, b) == NumEq(a.value, b.value) /\ a.unit = b.unit

\* the buckets of the first pass that hold a claim of ns, in the fixed order
PriorityBuckets(ns) ==
    SelectSeq(<<"ratio", "count", "money", "time">>,
              LAMBDA b : \E i \in 1..Len(ns) : _kpi_bucket(ns[i].unit) = b)

\* the number of distinct (str(value), unit) keys among ns
DistinctKeys(ns) == Cardinality({KpiKey(ns[i]) : i \in 1..Len(ns)})

\* C1: for every claim list and every k >= 0, choose_kpis returns at most k
\* items.
Inv_C1 == kcalled => Len(picked) <= k

\* C1: a call whose cap cut the selection short
Wit_C1 == kcalled /\ k >= 1 /\ Len(picked) = k /\ DistinctKeys(nums) > k

\* C2: for every input list, repeated pairs and mixed int and float values
\* included, no two returned items have equal value and equal unit.
CE_C2 ==
    kcalled =>
        \A i, j \in 1..Len(picked) : i # j => ~SamePair(picked[i], picked[j])

\* C6: the result begins with the highest-scoring claim of each non-empty
\* bucket among ratio, count, money, time, in that order, cut off at k.
Inv_C6 ==
    kcalled =>
        LET B == PriorityBuckets(nums)
            n == Min(k, Len(B))
        IN  /\ Len(picked) >= n
            /\ \A i \in 1..n :
                  /\ _kpi_bucket(picked[i].unit) = B[i]
                  /\ \A j \in 1..Len(nums) :
                        _kpi_bucket(nums[j].unit) = B[i]
                            => _kpi_score(nums[j]) <= _kpi_score(picked[i])

\* C6: the example of the claim: 80%, 1200 people, 3 jo, 1% and k = 3
Wit_C6 ==
    /\ kcalled
    /\ k = 3
    /\ nums = <<Pct80, People1200, Money3, Pct1>>
    /\ picked = <<Pct80, People1200, Money3>>

\* position i of the result holds a second claim of the count, money or time
\* bucket, or a claim of the other bucket
LateSlot(pk, i) ==
    LET b == _kpi_bucket(pk[i].unit)
    IN  \/ b = "other"
        \/ /\ b \in {"count", "money", "time"}
           /\ \E j \in 1..(i - 1) : _kpi_bucket(pk[j].unit) = b

RatiosBefore(pk, i) == Cardinality({j \in 1..(i - 1) : _kpi_bucket(pk[j].unit) = "ratio"})

\* the ratio bucket of ns holds two claims with distinct (value, unit)
TwoDistinctRatios(ns) ==
    \E a, b \in 1..Len(ns) :
        /\ _kpi_bucket(ns[a].unit) = "ratio"
        /\ _kpi_bucket(ns[b].unit) = "ratio"
        /\ ~SamePair(ns[a], ns[b])

\* C7: a second count, money or time claim, or any claim of the other
\* bucket, stands behind two ratio claims unless the ratio bucket holds fewer
\* than two claims with distinct (value, unit).
Inv_C7 ==
    kcalled =>
        \A i \in 1..Len(picked) :
            LateSlot(picked, i) => RatiosBefore(picked, i) >= 2 \/ ~TwoDistinctRatios(nums)

\* C7: a late slot that was filled behind two ratio claims
Wit_C7 ==
    /\ kcalled
    /\ TwoDistinctRatios(nums)
    /\ \E i \in 1..Len(picked) : LateSlot(picked, i) /\ RatiosBefore(picked, i) >= 2

\* C15: choose_kpis leaves its input unchanged and hides its scoring state:
\* after the call the input list and every record in it have the fields and
\* values they had before (no _score added), and no returned record has a
\* _score field.
Inv_C15 ==
    kcalled =>
        /\ nums_after = nums
        /\ \A i \in 1..Len(nums_after) : "_score" \notin DOMAIN nums_after[i]
        /\ \A i \in 1..Len(picked) : "_score" \notin DOMAIN picked[i]

\* C15: a call that scored more claims than it returned
Wit_C15 ==
    /\ kcalled
    /\ picked # <<>>
    /\ Len(picked) < Len(nums)
    /\ PickedSources(nums, k) # 1..Len(nums)

\* C26: choose_kpis returns exactly min(k, D) items, D being the number of
\* distinct (str(value), unit) keys of the input: never fewer than it could.
Inv_C26 == kcalled => Len(picked) = Min(k, DistinctKeys(nums))

\* C26: a call that returned every key of a list with a repeated key, with
\* slots to spare, and needed the fill loop for a second count claim and a
\* claim of the bucket other
Wit_C26 ==
    /\ kcalled
    /\ DistinctKeys(nums) < Len(nums)
    /\ DistinctKeys(nums) < k
    /\ Len(picked) = DistinctKeys(nums)
    /\ CountIn(picked, "count") = 2
    /\ CountIn(picked, "other") = 1

(***************************************************************************)
(* Claims about extract_numbers_with_context (under SpecExtract).          *)
(***************************************************************************)
\* the claims of res stand in the order they have in the list d
InOrderOf(res, d) ==
    \A i, j \in 1..Len(res) :
        i < j => \E a, b \in 1..Len(d) : a < b /\ d[a] = res[i] /\ d[b] = res[j]

CE_C4 == called => Len(results) <= max_items

\* C5: no two claims returned by one call have equal value and equal unit,
\* whatever the textual form of the numerals.
CE_C5 ==
    called =>
        \A i, j \in 1..Len(results) : i # j => ~SamePair(results[i], results[j])

\* the unit tokens the data model recognizes
RecognizedUnits ==
    { <<"%">>, <<"%", "p">>, <<"Myeong">>, <<"Geon">>, <<"Gae">>, <<"Nyeon">>,
      <<"Gae", "Wol">>, <<"Il">>, <<"Si", "Gan">>, <<"Bae">>, <<"Jo">>, <<"Eok">>,
      <<"Man">>, <<"Won">> }

\* the recognized tokens that stand at position e of s
TokensAt(s, e) == {u \in RecognizedUnits : StartsWithAt(s, e, u)}

\* the whole token among them: the longest
WholeToken(s, e) == CHOOSE u \in TokensAt(s, e) : \A w \in TokensAt(s, e) : Len(w) <= Len(u)

\* the end of the numeral of match m
NumeralEnd(m) == m.start + Len(m.num_str)

\* the sentences of the text that hold a match
MatchedSentences(t) ==
    SelectSeq(_split_sentences_ko(t), LAMBDA sent : FindIter(sent, 1) # <<>>)

\* C8: a numeral directly followed by a recognized unit token U yields a claim
\* whose unit is U, also when a shorter recognized token is a prefix of U:
\* every match takes the whole token, and the first match of a text, which
\* neither the cap nor the seen set can drop, is returned with it unless its
\* sentence is noise.
CE_C8 ==
    called =>
        /\ \A si \in 1..Len(_split_sentences_ko(text)) :
              LET sent == _split_sentences_ko(text)[si]
                  ms == FindIter(sent, 1)
              IN  \A x \in 1..Len(ms) :
                      TokensAt(sent, NumeralEnd(ms[x])) # {}
                          => ms[x].unit = WholeToken(sent, NumeralEnd(ms[x]))
        /\ MatchedSentences(text) # <<>> =>
              LET sent == MatchedSentences(text)[1]
                  m == FindIter(sent, 1)[1]
              IN  (TokensAt(sent, NumeralEnd(m)) # {} /\ ~_is_noise_number(m.raw, sent))
                      => \E i \in 1..Len(results) :
                            /\ results[i].unit = WholeToken(sent, NumeralEnd(m))
                            /\ results[i].context = sent

\* C10: every returned claim has a (raw, context) pair that is not noise: its
\* context holds no URL or page-view marker, calendar date, clock time or
\* ordinal marker as the filter defines them.
Inv_C10 ==
    called =>
        \A i \in 1..Len(results) :
            /\ ~_is_noise_number(results[i].raw, results[i].context)
            /\ ~HasUrlMarker(Strip(results[i].context))
            /\ ~HasDate(Strip(results[i].context))
            /\ ~HasClock(Strip(results[i].context))
            /\ ~HasOrdinal(Strip(results[i].context))

\* C10: a call that returned claims and dropped a discovered one as noise
Wit_C10 ==
    /\ called
    /\ results # <<>>
    /\ \E a \in 1..Len(discovered) :
          _is_noise_number(discovered[a].raw, discovered[a].context)

\* every match of the pattern in the sentences, in the order of the scan,
\* with the context its claim would get
RECURSIVE MatchesFrom(_, _)
MatchesFrom(sentences, si) ==
    IF si > Len(sentences) THEN <<>>
    ELSE LET sent == sentences[si]
             ms == FindIter(sent, 1)
         IN  [x \in 1..Len(ms) |->
                 [num_str |-> ms[x].num_str, unit |-> ms[x].unit, raw |-> ms[x].raw,
                  context |-> SubSeq(sent, 1, Min(Len(sent), CtxMax))]]
             \o MatchesFrom(sentences, si + 1)

AllMatches(t) == MatchesFrom(_split_sentences_ko(t), 1)

\* the position of the first match with the pair (numeral text, unit) of all[a]
FirstOfPair(all, a) ==
    SetMin({b \in 1..Len(all) : all[b].num_str = all[a].num_str /\ all[b].unit = all[a].unit})

\* the numeral text of a claim: its raw without the unit and the white space
NumeralText(n) == RStrip(SubSeq(n.raw, 1, Len(n.raw) - Len(n.unit)))

\* claim n is of the pair of the match mt
OfPair(n, mt) == NumeralText(n) = mt.num_str /\ n.unit = mt.unit

\* C27: the first occurrence of a (numeral text, unit) pair alone decides
\* its fate: a returned claim is the claim of the first occurrence of its
\* pair, and when the sentence of the first occurrence is noise no claim of
\* the pair is returned, whatever the later occurrences are.
Inv_C27 ==
    called =>
        LET all == AllMatches(text)
        IN  \A a \in 1..Len(all) :
                LET first == all[FirstOfPair(all, a)]
                IN  \A i \in 1..Len(results) :
                        OfPair(results[i], all[a]) =>
                            /\ results[i].raw = first.raw
                            /\ results[i].context = first.context
                            /\ ~_is_noise_number(first.raw, first.context)

\* C27: a call whose cap did not end the scan, on a text with a pair that
\* occurs first in a noise sentence and again in a sentence that is not
\* noise: no claim of the pair was returned
Wit_C27 ==
    /\ called
    /\ Len(discovered) < max_items
    /\ LET all == AllMatches(text)
       IN  \E a \in 1..Len(all) : \E b \in (a + 1)..Len(all) :
              /\ FirstOfPair(all, b) = a
              /\ _is_noise_number(all[a].raw, all[a].context)
              /\ ~_is_noise_number(all[b].raw, all[b].context)
              /\ \A i \in 1..Len(results) : ~OfPair(results[i], all[a])

\* the claims of the first occurrences of all pairs: the scan without a cap
Uncapped(t) == Discovered(t, Len(t) + 1)

\* C28: max_items bounds the matches collected before the noise filter and
\* the deduplication, not the claims returned: the collected matches are
\* the first ones of the scan, at most max_items of them, all of them when
\* fewer were collected, and the returned claims are what is left of them,
\* so that fewer than max_items claims, or none, may come back while matches
\* that are not noise stand unscanned further on.
CE_C28 ==
    called =>
        /\ Len(discovered) <= max_items
        /\ Len(discovered) <= Len(Uncapped(text))
        /\ discovered = SubSeq(Uncapped(text), 1, Len(discovered))
        /\ Len(discovered) < max_items => discovered = Uncapped(text)
        /\ Len(results) <= Len(discovered)

(***************************************************************************)
(* Claims about _is_noise_number (under SpecNoise).                        *)
(***************************************************************************)
\* a four-digit year, a month and a day joined by -, / or . start at i
CalendarDateAt(s, i) ==
    /\ DigitRun(s, i) >= 4
    /\ CharAt(s, i + 4) \in {"-", "/", "."}
    /\ \E a \in 1..2 :
          /\ DigitRun(s, i + 5) >= a
          /\ CharAt(s, i + 5 + a) \in {"-", "/", "."}
          /\ DigitRun(s, i + 6 + a) >= 1

ContainsCalendarDate(s) == \E i \in 1..Len(s) : CalendarDateAt(s, i)

\* C9: _is_noise_number is true for every context that contains a four-digit
\* year followed by a month and a day joined by -, / or ., whatever stands
\* next to the date and whatever the century.
CE_C9 == (ncalled /\ ContainsCalendarDate(nctx)) => nres = TRUE

(***************************************************************************)
(* Claims about postprocess_numbers (under SpecPost).                      *)
(***************************************************************************)
\* the positions of ns that hold a claim the noise filter lets through
NonNoise(ns) == {i \in 1..Len(ns) : ~_is_noise_number(ns[i].raw, ns[i].context)}

\* the keys that occur among the non-noise claims of ns
NonNoiseKeys(ns) == {PostKey(ns[i]) : i \in NonNoise(ns)}

\* the position of the first non-noise claim of ns with the key
FirstWithKey(ns, key) == SetMin({i \in NonNoise(ns) : PostKey(ns[i]) = key})

\* res holds exactly one claim per key of the non-noise claims of ns, and
\* that claim is the first of ns with the key
OnePerKey(res, ns) ==
    /\ {PostKey(res[i]) : i \in 1..Len(res)} = NonNoiseKeys(ns)
    /\ Len(res) = Cardinality(NonNoiseKeys(ns))
    /\ \A i \in 1..Len(res) : res[i] = ns[FirstWithKey(ns, PostKey(res[i]))]

\* the claims of res stand in the relative positions they have in ns
SamePositions(res, ns) ==
    \A i, j \in 1..Len(res) :
        i < j => FirstWithKey(ns, PostKey(res[i])) < FirstWithKey(ns, PostKey(res[j]))

\* C11 as stated: postprocess_numbers returns exactly one claim per distinct
\* (str(value), unit, raw) key among the non-noise inputs, the first input
\* with the key, and the kept claims stand in the same relative positions as
\* in the input.
CE_C11 == pcalled => OnePerKey(pout, pnums) /\ SamePositions(pout, pnums)

\* C11 as amended: exactly one claim per distinct key among the non-noise
\* inputs, the first input with the key; the kept claims stand in order of
\* non-increasing score, and kept claims of equal score stand in the
\* relative positions they have in the input.
Inv_C11 ==
    pcalled =>
        /\ OnePerKey(pout, pnums)
        /\ \A i, j \in 1..Len(pout) :
              i < j =>
                  /\ PostScore60(pout[i], ptitle) >= PostScore60(pout[j], ptitle)
                  /\ PostScore60(pout[i], ptitle) = PostScore60(pout[j], ptitle)
                        => FirstWithKey(pnums, PostKey(pout[i]))
                              < FirstWithKey(pnums, PostKey(pout[j]))

\* C11: a call that dropped a repeated key and a noise claim, and returned
\* two claims against their input order
Wit_C11 ==
    /\ pcalled
    /\ Len(pout) >= 2
    /\ Cardinality(NonNoise(pnums)) > Len(pout)
    /\ Cardinality(NonNoise(pnums)) < Len(pnums)
    /\ ~SamePositions(pout, pnums)

(***************************************************************************)
(* Claims about the scores (under SpecScore).                              *)
(***************************************************************************)
\* the additive rule, in sixtieths
AdditiveRule60(n) ==
    LET pct == Contains(n.unit, <<"%">>)
        small == n.value.ip < 2 \/ (n.value.ip = 2 /\ n.value.fr = <<>>)
    IN  60 * ( (IF pct THEN 50 ELSE 0)
             + (IF n.unit \in { <<"Myeong">>, <<"Geon">>, <<"Gae">> } THEN 35 ELSE 0)
             + (IF \/ n.unit \in { <<"Jo">>, <<"Eok">>, <<"Man">>, <<"Won">> }
                   \/ \E i \in 1..Len(n.unit) : n.unit[i] = "Won"
                THEN 30 ELSE 0)
             + (IF n.unit \in { <<"Nyeon">>, <<"Gae", "Wol">>, <<"Il">>, <<"Si", "Gan">> }
                THEN 20 ELSE 0)
             - (IF small /\ ~pct THEN 10 ELSE 0)
             + (IF \E i \in 1..Len(n.label) : ~IsSpace(n.label[i]) THEN 5 ELSE 0) )
        + (IF Len(n.context) < 180 THEN Len(n.context) ELSE 180)

\* C18: the score _kpi_score gives equals the additive rule: +50 if the unit
\* contains %, +35 for a count unit, +30 for a money unit or a unit that
\* contains the won sign, +20 for a time unit, plus min(len(context), 180)/60,
\* -10 if value <= 2 and the unit has no %, +5 if the label is not blank.
Inv_C18 == scored => kscore = AdditiveRule60(sclaim)

\* C18: a scored claim with a small value, a count unit, a label with a
\* leading blank and a context beyond the cap
Wit_C18 ==
    /\ scored
    /\ sclaim.unit = <<"Myeong">>
    /\ AtMostTwo(sclaim.value)
    /\ sclaim.label = <<" ", "a">>
    /\ Len(sclaim.context) > CtxMax
    /\ kscore = 60 * 30 + 180

\* the claim n with the unit u in place of its own (raw ends with the unit)
WithUnit(n, u) == [n EXCEPT !.unit = u, !.raw = PyStr(n.value) \o u]

\* C20: of two claims that differ only in unit, one unit with % and one
\* without, the claim with % has the strictly greater score, in _kpi_score
\* and in the score of postprocess_numbers, for every value, context and
\* label.
Inv_C20 ==
    (scored /\ Contains(sclaim.unit, <<"%">>)) =>
        \A u \in ScoreUnitPool :
            ~Contains(u, <<"%">>) =>
                /\ _kpi_score(WithUnit(sclaim, u)) < kscore
                /\ PostScore60(WithUnit(sclaim, u), stitle) < pscore

\* C20: a scored percentage-point claim of small value, whose rivals with a
\* count unit get the largest bonus a unit without % can get
Wit_C20 ==
    /\ scored
    /\ sclaim.unit = <<"%", "p">>
    /\ AtMostTwo(sclaim.value)
    /\ _kpi_score(WithUnit(sclaim, <<"Myeong">>)) + 60 * 25 = kscore

\* the first 12 characters of the title
TitleHead(title) == SubSeq(title, 1, Min(Len(title), 12))

\* C19: for a non-empty title, the score that ranks claims in
\* extract_numbers_with_context and in choose_kpis is 8 higher for a claim
\* whose context contains the first 12 characters of the title than for a
\* claim of the same unit, value, label and context length whose context
\* does not contain them.
CE_C19 ==
    (scored /\ stitle # <<>> /\ Contains(sclaim.context, TitleHead(stitle))) =>
        \A c \in ScoreContexts :
            (Len(c) = Len(sclaim.context) /\ ~Contains(c, TitleHead(stitle))) =>
                LET m == [sclaim EXCEPT !.context = c]
                IN  /\ escore = ExtractScore60(m) + 60 * 8
                    /\ kscore = _kpi_score(m) + 60 * 8

(***************************************************************************)
(* Claims about classify_trend (under SpecTrend).                          *)
(***************************************************************************)
\* the directional symbols and words: the two triangles, and the words for
\* increase, decrease, rise, fall, grow and shrink
DirectionCues ==
    { <<"UpTri">>, <<"DownTri">>, <<"Jeung", "Ga">>, <<"Gam", "So">>, <<"Sang", "Seung">>,
      <<"Ha", "Rak">>, <<"Neul">>, <<"Jul">> }

HasDirectionCue(s) == \E w \in DirectionCues : Contains(s, w)

\* C17: a trend is up or down only when the raw/context text contains a
\* directional symbol or word; text whose only cue is a + or - before a
\* digit (a signed numeral, a date or a phone number) yields neutral.
CE_C17 ==
    tcalled =>
        /\ ttrend \in {"up", "down"} => (targ.t = "str" /\ HasDirectionCue(targ.s))
        /\ (targ.t = "str" /\ ~HasDirectionCue(targ.s)) => ttrend = "neutral"

(***************************************************************************)
(* Claims about the handlers that write spec.content.numbers (under        *)
(* SpecApp).                                                               *)
(***************************************************************************)
LabelAt(ns, i) == GetText(ns[i], "label")

NoteAt(ns, i) == GetText(ns[i], "note")

\* C12: a position of the request list the reply of the oracle has no entry
\* for keeps the label it had before the merge, in the merge of
\* infer_kpi_labels_with_ai and in the positional merge after enrich_labels.
CE_C12 ==
    (last_op \in {"kpi_label", "label"} /\ ~raised) =>
        \A i \in missing :
            /\ i <= Len(spec_numbers)
            /\ LabelAt(spec_numbers, i) = LabelAt(prior, i)

\* C16: build_render_model leaves the spec as it was, and the numbers of
\* the render model are the claims of the spec as they were before the
\* call, label, note and trend included.
CE_C16 == last_op = "render" => (spec_numbers = prior /\ rm_numbers = prior)

(***************************************************************************)
(* Claims about refine_numbers_with_openai (under SpecRefine).             *)
(***************************************************************************)
\* a list of entries for n claims is malformed or partial: not a list, too
\* few entries, an entry that is not a record, a field that is a number
MalformedList(n, entries, fields) ==
    \/ entries.t # "list"
    \/ /\ entries.t = "list"
       /\ \/ Len(entries.elems) < n
          \/ \E i \in 1..Len(entries.elems) :
                \/ entries.elems[i].t # "dict"
                \/ /\ entries.elems[i].t = "dict"
                   /\ \E f \in fields : entries.elems[i][f].t = "num"

\* the reply is JSON, and of a malformed or partial shape for n claims
MalformedItems(n, reply) ==
    /\ reply.t # "fail"
    /\ reply.t = "dict" => MalformedList(n, reply.items, {"label", "value", "unit", "note"})

\* C13: on a reply that is JSON of a malformed or partial shape the
\* function raises no exception, and every claim keeps the label and the
\* note it had before.
CE_C13 ==
    (rcalled /\ rclient /\ MalformedItems(Min(Len(rnumbers), RefineCap), rdata)) =>
        /\ ~rraised
        /\ Len(rret) = Len(rnumbers)
        /\ \A i \in 1..Len(rret) :
              /\ LabelAt(rret, i) = LabelAt(rnumbers, i)
              /\ NoteAt(rret, i) = NoteAt(rnumbers, i)

ExtractedFields == {"value", "unit", "raw", "context"}

\* claim n has the value, unit, raw and context of the extracted claim e
AsExtracted(n, e) == \A f \in ExtractedFields : f \in DOMAIN n /\ n[f] = e[f]

FirstAt(ns, n) == SetMin({i \in 1..Len(ns) : ns[i] = n})

\* the returned claims of equal score stand in the order of their first
\* non-noise occurrences in the input
TiesInInputOrder(res, ns, title) ==
    \A i \in 1..Len(res) : \A j \in (i + 1)..Len(res) :
        PostScore60(res[i], title) = PostScore60(res[j], title) =>
            FirstWithKey(ns, PostKey(res[i])) < FirstWithKey(ns, PostKey(res[j]))

\* a claim of the input that stands before the picked claim pk[p], in its
\* bucket and with its score, was picked before it, or a claim of its key was
FirstOfTiesPicked(pk, ns) ==
    \A p \in 1..Len(pk) : \A j \in 1..(FirstAt(ns, pk[p]) - 1) :
        (/\ _kpi_bucket(ns[j].unit) = _kpi_bucket(pk[p].unit)
         /\ _kpi_score(ns[j]) = _kpi_score(pk[p])) =>
            \E q \in 1..(p - 1) : KpiKey(pk[q]) = KpiKey(ns[j])

\* C21: in the descending sorts of postprocess_numbers and choose_kpis two
\* claims of equal score keep the order they had in the input, so among the
\* claims of one bucket with equal score choose_kpis picks the first of its
\* input.
Inv_C21 ==
    /\ pcalled => TiesInInputOrder(pout, pnums, ptitle)
    /\ kcalled => FirstOfTiesPicked(picked, nums)

\* C21: both functions ran on a list whose first two claims have equal
\* score and different keys and whose third has a higher score: the sort
\* returned the third, the first, the second, and choose_kpis with k = 2
\* picked the third and the first
Wit_C21 ==
    /\ pcalled /\ kcalled /\ k = 2
    /\ Len(pnums) = 3
    /\ PostScore60(pnums[1], ptitle) = PostScore60(pnums[2], ptitle)
    /\ PostScore60(pnums[3], ptitle) > PostScore60(pnums[1], ptitle)
    /\ pout = <<pnums[3], pnums[1], pnums[2]>>
    /\ _kpi_score(nums[1]) = _kpi_score(nums[2])
    /\ _kpi_bucket(nums[1].unit) = _kpi_bucket(nums[2].unit)
    /\ KpiKey(nums[1]) # KpiKey(nums[2])
    /\ picked = <<nums[3], nums[1]>>

(***************************************************************************)
(* Claims about the units and the empty results (under SpecScan).          *)
(***************************************************************************)
\* C22: every claim extract_numbers_with_context emits has a unit that is
\* one of the recognized tokens; no other unit string is emitted.
CE_C22 == called => \A i \in 1..Len(results) : results[i].unit \in RecognizedUnits

\* a digit of t is followed, after any white space, by a recognized token
HasUnitNumeral(t) ==
    \E i \in 1..Len(t) :
        /\ IsDigit(t[i])
        /\ \E m \in 0..SpaceRun(t, i + 1) : TokensAt(t, i + 1 + m) # {}

\* C23: extract_numbers_with_context returns an empty list and raises
\* nothing for a text that is empty, None or white space only and for a
\* text that has no numeral with a unit behind it; choose_kpis returns an
\* empty list for the empty list of claims, for every k.
CE_C23 ==
    /\ (called /\ ~HasUnitNumeral(text)) => (~xraised /\ results = <<>>)
    /\ (kcalled /\ nums = <<>>) => picked = <<>>

(***************************************************************************)
(* Claims about the status line of run_public_mode (under SpecApp).        *)
(***************************************************************************)
\* C30: in public mode, whenever the dirty flag is false and an SVG exists,
\* the stored SVG was rendered from the spec as it now stands: whatever
\* changed the spec since the render has set the flag.
CE_C30 == (public /\ ~dirty /\ svg_exists) => svg_of = CurrentSpec

(***************************************************************************)
(* Claims about the guards of the fetch button (under SpecGuard).          *)
(***************************************************************************)
\* C25: is_allowed_url accepts a URL only if its host is segye.com or ends
\* in .segye.com, and in both modes extract_article is called only for a
\* URL that is_allowed_url accepts.
CE_C25 ==
    req_outcome = "fetched" => (is_allowed_url(req_url) /\ IsSegyeHost(Hostname(req_url)))

\* C29: with a clock that never runs backwards, a request that passes
\* guard_rate_limit(s) comes at least s seconds after the request accepted
\* before it, and a request the guard stops leaves last_fetch_ts as it was.
Inv_C29 ==
    /\ \A i \in 2..Len(accepted) : accepted[i].at - accepted[i - 1].at >= accepted[i].seconds
    /\ req_outcome = "stopped" => last_fetch_ts = req_prior_ts

\* two requests were accepted, and after them one was stopped later than
\* the second
Wit_C29 ==
    /\ Len(accepted) = 2
    /\ req_outcome = "stopped"
    /\ now > accepted[2].at

(***************************************************************************)
(* Claims about interleaved invocations (under SpecCalls).                 *)
(***************************************************************************)
\* C24: extract_numbers_with_context and choose_kpis keep their working
\* state in locals of the invocation: however the steps of invocations on
\* independent inputs are interleaved, each invocation returns what it
\* returns when it runs alone.
Inv_C24 ==
    \A i \in DOMAIN frames :
        frames[i].pc = "done" =>
            frames[i].ret = IF frames[i].fn = "extract"
                            THEN extract_numbers_with_context(frames[i].arg, frames[i].limit)
                            ELSE choose_kpis(frames[i].arg, frames[i].limit)

\* two invocations of extract_numbers_with_context ran through each other,
\* met the same pair of numeral and unit, and both returned a claim
Wit_C24 ==
    /\ frames # <<>>
    /\ \E i, j \in DOMAIN frames :
        /\ i # j
        /\ frames[i].fn = "extract" /\ frames[j].fn = "extract"
        /\ frames[i].pc = "done" /\ frames[j].pc = "done"
        /\ frames[i].overlapped /\ frames[j].overlapped
        /\ frames[i].seen \cap frames[j].seen # {}
        /\ frames[i].ret # <<>> /\ frames[j].ret # <<>>

====
